---- MODULE Spec2Model ----
(***************************************************************************)
(* The WASM execution host of the wildcard extension's service worker:     *)
(* the runWasmPacketItem handler, the WasmRuntime Canonical-ABI codec, the *)
(* host capability surface (sqlite, bookmarks, env.log, WASI shims), the   *)
(* SQLiteManager handles and their checkpoints in chrome.storage.local.    *)
(*                                                                         *)
(* JavaScript strings are sequences of code units; every message text the  *)
(* code builds is spelled out below as such a sequence.  Guest linear      *)
(* memory is byte addressed and little endian, as DataView is used there.  *)
(***************************************************************************)
EXTENDS Integers, Sequences, FiniteSets, TLC

(***************************************************************************)
(* Bounds of the model.                                                    *)
(***************************************************************************)
\* messages (invocations) the lifecycle specification delivers
MaxInv == 2
\* host calls made in the lifecycle specification, over all guests
MaxCalls == 2
\* invocations the capability specification delivers
CapInv == 1
\* capability calls made in the capability specification, over all guests
CapCalls == 2
\* rows a table is let grow to
MaxRows == 2
\* invocations of the verification guest in the database specification
SqlInv == 2
\* sqlite calls made in the database specification, over all guests
SqlCalls == 4
\* collection messages the store specification delivers
StoreMsgs == 3
\* restarts of the service worker in the store specification
StoreBoots == 1
\* calls of initializeSQLite: the eager one and the messages' ones
InitCalls == 4
\* tab-group handlers (playPacket, openTabInGroup, onRemoved) and packets
GroupProcs == 3
PacketIds == { 1, 2 }
DispatchMsgs == 1
CacheInv == 1
CacheCalls == 2
CacheSyncs == 3

(***************************************************************************)
(* Program constants.                                                      *)
(***************************************************************************)
\* bytes in one WebAssembly page
PageSize == 65536
\* the verification guest's (memory (export "memory") 4)
InitialPages == 4
\* the verification guest's (global $heap_ptr (mut i32) (i32.const 1024))
HeapBase == 1024
\* sizeof(BookmarkNode) in the Canonical ABI layout
NodeSize == 52
\* size of a string or list header {pointer: u32, length: u32}
HeaderSize == 8
\* record row { values: list<string> }: a row is one list header
RowSize == HeaderSize


(***************************************************************************)
(* Texts.                                                                  *)
(***************************************************************************)
\* "WASM module missing 'cabi_realloc' or 'canonical_abi_realloc' export"  [68 code units]
MsgMissingRealloc ==
  <<87, 65, 83, 77, 32, 109, 111, 100, 117, 108, 101, 32, 109, 105, 115, 115, 105, 110, 103, 32, 39, 99, 97, 98, 105, 95, 114, 101, 97, 108, 108, 111, 99, 39, 32, 111, 114, 32, 39, 99, 97, 110, 111, 110, 105, 99, 97, 108, 95, 97, 98, 105, 95, 114, 101, 97, 108, 108, 111, 99, 39, 32, 101, 120, 112, 111, 114, 116>>
\* "cabi_realloc"  [12 code units]
NameCabiRealloc ==
  <<99, 97, 98, 105, 95, 114, 101, 97, 108, 108, 111, 99>>
\* "Cache not ready"  [15 code units]
MsgCacheNotReady ==
  <<67, 97, 99, 104, 101, 32, 110, 111, 116, 32, 114, 101, 97, 100, 121>>
\* "Async 'create' requires JSPI."  [29 code units]
MsgCreateUnavailable ==
  <<65, 115, 121, 110, 99, 32, 39, 99, 114, 101, 97, 116, 101, 39, 32, 114, 101, 113, 117, 105, 114, 101, 115, 32, 74, 83, 80, 73, 46>>
\* "No run or main export found"  [27 code units]
MsgNoEntry ==
  <<78, 111, 32, 114, 117, 110, 32, 111, 114, 32, 109, 97, 105, 110, 32, 101, 120, 112, 111, 114, 116, 32, 102, 111, 117, 110, 100>>
\* "No WASM data provided"  [21 code units]
MsgNoData ==
  <<78, 111, 32, 87, 65, 83, 77, 32, 100, 97, 116, 97, 32, 112, 114, 111, 118, 105, 100, 101, 100>>
\* "WASM LinkError: "  [16 code units]
LinkErrorPrefix ==
  <<87, 65, 83, 77, 32, 76, 105, 110, 107, 69, 114, 114, 111, 114, 58, 32>>
\* ". Possible mismatch between generated code and host imports."  [60 code units]
LinkErrorSuffix ==
  <<46, 32, 80, 111, 115, 115, 105, 98, 108, 101, 32, 109, 105, 115, 109, 97, 116, 99, 104, 32, 98, 101, 116, 119, 101, 101, 110, 32, 103, 101, 110, 101, 114, 97, 116, 101, 100, 32, 99, 111, 100, 101, 32, 97, 110, 100, 32, 104, 111, 115, 116, 32, 105, 109, 112, 111, 114, 116, 115, 46>>
\* "Import #0 "env" "log": function import requires a callable"  [58 code units]
EngineLinkMsg ==
  <<73, 109, 112, 111, 114, 116, 32, 35, 48, 32, 34, 101, 110, 118, 34, 32, 34, 108, 111, 103, 34, 58, 32, 102, 117, 110, 99, 116, 105, 111, 110, 32, 105, 109, 112, 111, 114, 116, 32, 114, 101, 113, 117, 105, 114, 101, 115, 32, 97, 32, 99, 97, 108, 108, 97, 98, 108, 101>>
\* "Invalid typed array length: 8"  [29 code units]
EngineRangeMsg ==
  <<73, 110, 118, 97, 108, 105, 100, 32, 116, 121, 112, 101, 100, 32, 97, 114, 114, 97, 121, 32, 108, 101, 110, 103, 116, 104, 58, 32, 56>>
\* "unreachable"  [11 code units]
EngineTrapMsg ==
  <<117, 110, 114, 101, 97, 99, 104, 97, 98, 108, 101>>
\* "no such table: test_verification"  [32 code units]
EngineNoTableMsg ==
  <<110, 111, 32, 115, 117, 99, 104, 32, 116, 97, 98, 108, 101, 58, 32, 116, 101, 115, 116, 95, 118, 101, 114, 105, 102, 105, 99, 97, 116, 105, 111, 110>>
\* "near "Success": syntax error"  [28 code units]
EngineSyntaxMsg ==
  <<110, 101, 97, 114, 32, 34, 83, 117, 99, 99, 101, 115, 115, 34, 58, 32, 115, 121, 110, 116, 97, 120, 32, 101, 114, 114, 111, 114>>
\* "verification_results"  [20 code units]
DbNameText ==
  <<118, 101, 114, 105, 102, 105, 99, 97, 116, 105, 111, 110, 95, 114, 101, 115, 117, 108, 116, 115>>
\* "CREATE TABLE IF NOT EXISTS test_verification (id INTEGER, val TEXT)"  [67 code units]
SqlCreateText ==
  <<67, 82, 69, 65, 84, 69, 32, 84, 65, 66, 76, 69, 32, 73, 70, 32, 78, 79, 84, 32, 69, 88, 73, 83, 84, 83, 32, 116, 101, 115, 116, 95, 118, 101, 114, 105, 102, 105, 99, 97, 116, 105, 111, 110, 32, 40, 105, 100, 32, 73, 78, 84, 69, 71, 69, 82, 44, 32, 118, 97, 108, 32, 84, 69, 88, 84, 41>>
\* "INSERT INTO test_verification (id, val) VALUES (1, 'hello')"  [59 code units]
SqlInsertText ==
  <<73, 78, 83, 69, 82, 84, 32, 73, 78, 84, 79, 32, 116, 101, 115, 116, 95, 118, 101, 114, 105, 102, 105, 99, 97, 116, 105, 111, 110, 32, 40, 105, 100, 44, 32, 118, 97, 108, 41, 32, 86, 65, 76, 85, 69, 83, 32, 40, 49, 44, 32, 39, 104, 101, 108, 108, 111, 39, 41>>
\* "SELECT * FROM test_verification"  [31 code units]
SqlSelectText ==
  <<83, 69, 76, 69, 67, 84, 32, 42, 32, 70, 82, 79, 77, 32, 116, 101, 115, 116, 95, 118, 101, 114, 105, 102, 105, 99, 97, 116, 105, 111, 110>>
\* "Success!"  [8 code units]
SuccessText ==
  <<83, 117, 99, 99, 101, 115, 115, 33>>
\* "hello"  [5 code units]
HelloText ==
  <<104, 101, 108, 108, 111>>
\* "id"  [2 code units]
ColIdText ==
  <<105, 100>>
\* "val"  [3 code units]
ColValText ==
  <<118, 97, 108>>
\* "test_verification"  [17 code units]
TableNameText ==
  <<116, 101, 115, 116, 95, 118, 101, 114, 105, 102, 105, 99, 97, 116, 105, 111, 110>>
\* "checkpoint_"  [11 code units]
CheckpointPrefix ==
  <<99, 104, 101, 99, 107, 112, 111, 105, 110, 116, 95>>
\* "packets"  [7 code units]
PacketsName ==
  <<112, 97, 99, 107, 101, 116, 115>>
\* "schemas"  [7 code units]
SchemasName ==
  <<115, 99, 104, 101, 109, 97, 115>>
\* "wits"  [4 code units]
WitsName ==
  <<119, 105, 116, 115>>
\* "sqlite_sequence"  [15 code units]
SeqName ==
  <<115, 113, 108, 105, 116, 101, 95, 115, 101, 113, 117, 101, 110, 99, 101>>
\* "chrome:bookmarks"  [16 code units]
WitBookmarksName ==
  <<99, 104, 114, 111, 109, 101, 58, 98, 111, 111, 107, 109, 97, 114, 107, 115>>
\* "user:sqlite"  [11 code units]
WitSqliteName ==
  <<117, 115, 101, 114, 58, 115, 113, 108, 105, 116, 101>>

(***************************************************************************)
(* Helpers on sequences and numbers.                                       *)
(***************************************************************************)
\* JS undefined in a slot that otherwise holds a string
UndefStr == <<-1>>
\* no exception in flight
NoThrow == <<-2>>

IsInfix(sub, s) ==
  \E i \in 0..(Len(s) - Len(sub)) : SubSeq(s, i + 1, i + Len(sub)) = sub

LE32(v) ==
  << v % 256, (v \div 256) % 256, (v \div 65536) % 256, (v \div 16777216) % 256 >>

FromLE32(b) ==
  b[1] + 256 * b[2] + 65536 * b[3] + 16777216 * b[4]

RECURSIVE DecimalString(_)
DecimalString(n) ==
  IF n < 10 THEN << 48 + n >>
  ELSE DecimalString(n \div 10) \o << 48 + (n % 10) >>

(***************************************************************************)
(* TextEncoder / TextDecoder (UTF-8) on code units.  A surrogate pair is   *)
(* one code point of 4 bytes, a lone surrogate encodes as U+FFFD; a byte   *)
(* that starts no well-formed sequence decodes as U+FFFD.                  *)
(***************************************************************************)
IsSurrogate(c) == c >= 55296 /\ c <= 57343

EncodeUnit(c) ==
  IF c < 128 THEN << c >>
  ELSE IF c < 2048 THEN << 192 + (c \div 64), 128 + (c % 64) >>
  ELSE IF IsSurrogate(c) THEN << 239, 191, 189 >>
  ELSE << 224 + (c \div 4096), 128 + ((c \div 64) % 64), 128 + (c % 64) >>

RECURSIVE Utf8Encode(_)
Utf8Encode(s) ==
  IF s = <<>> THEN <<>>
  ELSE IF Len(s) >= 2 /\ s[1] >= 55296 /\ s[1] < 56320 /\ s[2] >= 56320 /\ s[2] <= 57343
    THEN << 240 + ((64 + (s[1] - 55296)) \div 256),
            128 + (((64 + (s[1] - 55296)) \div 4) % 64),
            128 + (((64 + (s[1] - 55296)) % 4) * 16) + ((s[2] - 56320) \div 64),
            128 + ((s[2] - 56320) % 64) >>
         \o Utf8Encode(SubSeq(s, 3, Len(s)))
  ELSE EncodeUnit(Head(s)) \o Utf8Encode(Tail(s))

IsCont(b) == b >= 128 /\ b < 192

RECURSIVE Utf8Decode(_)
Utf8Decode(b) ==
  IF b = <<>> THEN <<>>
  ELSE IF b[1] < 128 THEN << b[1] >> \o Utf8Decode(Tail(b))
  ELSE IF b[1] >= 194 /\ b[1] < 224 /\ Len(b) >= 2 /\ IsCont(b[2])
    THEN << (b[1] - 192) * 64 + (b[2] - 128) >> \o Utf8Decode(SubSeq(b, 3, Len(b)))
  ELSE IF b[1] >= 224 /\ b[1] < 240 /\ Len(b) >= 3 /\ IsCont(b[2]) /\ IsCont(b[3])
          /\ (b[1] - 224) * 4096 + (b[2] - 128) * 64 + (b[3] - 128) >= 2048
          /\ ~IsSurrogate((b[1] - 224) * 4096 + (b[2] - 128) * 64 + (b[3] - 128))
    THEN << (b[1] - 224) * 4096 + (b[2] - 128) * 64 + (b[3] - 128) >>
         \o Utf8Decode(SubSeq(b, 4, Len(b)))
  ELSE IF b[1] >= 240 /\ b[1] < 245 /\ Len(b) >= 4 /\ IsCont(b[2]) /\ IsCont(b[3])
          /\ IsCont(b[4])
          /\ (b[1] - 240) * 64 + (b[2] - 128) >= 16
          /\ (b[1] - 240) * 64 + (b[2] - 128) < 272
    THEN << 55296 + (((b[1] - 240) * 64 + (b[2] - 128) - 16) * 4) + ((b[3] - 128) \div 16),
            56320 + (((b[3] - 128) % 16) * 64) + (b[4] - 128) >>
         \o Utf8Decode(SubSeq(b, 5, Len(b)))
  ELSE << 65533 >> \o Utf8Decode(Tail(b))

(***************************************************************************)
(* The guest's data section, after the verification guest of media.js      *)
(* (db name at 0, the three statements at 20, 90 and 150, "Success!" at    *)
(* 190), followed by two iovec arrays a guest using fd_write builds: one   *)
(* of two readable ranges, one whose second range ends past the memory.    *)
(***************************************************************************)
GuestLayout ==
  [ db |-> [ptr |-> 0, len |-> 20],
    create |-> [ptr |-> 20, len |-> 67],
    insert |-> [ptr |-> 90, len |-> 59],
    select |-> [ptr |-> 150, len |-> 31],
    success |-> [ptr |-> 190, len |-> 8],
    oob |-> [ptr |-> InitialPages * PageSize - 4, len |-> 8],
    iovsGood |-> 200, iovsBad |-> 216, nwritten |-> 240 ]

DataSegs ==
  << [at |-> GuestLayout.db.ptr, bytes |-> DbNameText],
     [at |-> GuestLayout.create.ptr, bytes |-> SqlCreateText],
     [at |-> GuestLayout.insert.ptr, bytes |-> SqlInsertText],
     [at |-> GuestLayout.select.ptr, bytes |-> SqlSelectText],
     [at |-> GuestLayout.success.ptr, bytes |-> SuccessText],
     [at |-> GuestLayout.iovsGood,
      bytes |-> LE32(GuestLayout.success.ptr) \o LE32(GuestLayout.success.len)
                \o LE32(GuestLayout.db.ptr) \o LE32(GuestLayout.db.len)],
     [at |-> GuestLayout.iovsBad,
      bytes |-> LE32(GuestLayout.success.ptr) \o LE32(GuestLayout.success.len)
                \o LE32(GuestLayout.oob.ptr) \o LE32(GuestLayout.oob.len)] >>

GuestData ==
  [ a \in UNION { (DataSegs[k].at)..(DataSegs[k].at + Len(DataSegs[k].bytes) - 1)
                  : k \in DOMAIN DataSegs } |->
      LET k == CHOOSE j \in DOMAIN DataSegs :
                 a >= DataSegs[j].at /\ a < DataSegs[j].at + Len(DataSegs[j].bytes)
      IN DataSegs[k].bytes[a - DataSegs[k].at + 1] ]

(***************************************************************************)
(* WasmRuntime: one record per instance.                                   *)
(*   mem     the bytes written since instantiation (address -> byte)       *)
(*   heap    the guest allocator's $heap_ptr                               *)
(*   pages   memory.size                                                   *)
(*   gen     how often memory.grow has replaced memory.buffer              *)
(*   nalloc  allocator calls made so far                                   *)
(*   ev      the allocations and stores of the capability call in progress *)
(*   err     the message of the exception in flight, or NoThrow            *)
(*   ret     the value the last routine returned                           *)
(***************************************************************************)
NewRuntime(g) ==
  [ mem |-> <<>>, heap |-> g.heap0, pages |-> InitialPages, gen |-> 0,
    nalloc |-> 0, ev |-> <<>>, err |-> NoThrow, ret |-> 0,
    realloc |-> g.realloc, dirty |-> g.dirty ]

\* const v = ...; the rest of the block runs with v bound to that one value
Then(v, F(_)) == CHOOSE r \in { F(y) : y \in { v } } : TRUE

Ok(m) == m.err = NoThrow

Throw(m, msg) == IF Ok(m) THEN [m EXCEPT !.err = msg] ELSE m

Return(m, v) == IF Ok(m) THEN [m EXCEPT !.ret = v] ELSE m

\* one entry of the record of what a capability call did to guest memory:
\*   "alloc"  the allocator issued n bytes at `at`
\*   "write", "disc", "out"  a store of `bytes` at `at` (fresh: through a view
\*            taken after the latest allocator call)
\*   "ref"    a {pointer, length} header was written that points to `at`
\*            and announces cnt elements, n bytes in all
\*   "node"   a bookmark node record was encoded at `at`
Ev(k, at, n, cnt, bytes, fresh) ==
  [ k |-> k, at |-> at, n |-> n, cnt |-> cnt, bytes |-> bytes, fresh |-> fresh ]

Note(m, e) == IF Ok(m) THEN [m EXCEPT !.ev = Append(@, e)] ELSE m

MemSize(m) == m.pages * PageSize

LoadByte(m, a) ==
  IF a \in DOMAIN m.mem THEN m.mem[a]
  ELSE IF a \in DOMAIN GuestData THEN GuestData[a]
  ELSE IF a < InitialPages * PageSize THEN m.dirty
  ELSE 0

LoadBytes(m, a, n) == [ i \in 1..n |-> LoadByte(m, a + i - 1) ]

\* getView(): a view of memory.buffer as it is now
GetView(m) == [ epoch |-> m.nalloc, gen |-> m.gen ]

\* a store of bytes through a view: DataView.setUint32, TypedArray.set
StoreBytes(m, view, a, bytes, kind) ==
  IF ~Ok(m) THEN m
  ELSE IF view.gen # m.gen \/ a + Len(bytes) > MemSize(m) THEN Throw(m, EngineRangeMsg)
  ELSE [ m EXCEPT
           !.mem = [ x \in a..(a + Len(bytes) - 1) |-> bytes[x - a + 1] ] @@ m.mem,
           !.ev = Append(@, Ev(kind, a, Len(bytes), 0, bytes, view.epoch = m.nalloc)) ]

\* view.setUint32(a, v, true)
SetUint32(m, view, a, v) == StoreBytes(m, view, a, LE32(v), "write")

\* view.setUint32(a, v, true) where the slot is a discriminant
PutDisc(m, view, a, v) == StoreBytes(m, view, a, LE32(v), "disc")

\* view.getUint32(a, true)
GetUint32(m, view, a) ==
  IF ~Ok(m) THEN m
  ELSE IF view.gen # m.gen \/ a + 4 > MemSize(m) THEN Throw(m, EngineRangeMsg)
  ELSE Return(m, FromLE32(LoadBytes(m, a, 4)))

\* a readString whose decoder keeps a leading byte order mark
ReadStringKeepsMark(m, ptr, len) ==
  IF ~Ok(m) THEN m
  ELSE IF ptr + len > MemSize(m) THEN Throw(m, EngineRangeMsg)
  ELSE Return(m, Utf8Decode(LoadBytes(m, ptr, len)))

\* readString(ptr, len): new TextDecoder().decode(bytes) drops a byte order
\* mark (EF BB BF) that starts the bytes
ReadString(m, ptr, len) ==
  IF ~Ok(m) THEN m
  ELSE IF ptr + len > MemSize(m) THEN Throw(m, EngineRangeMsg)
  ELSE IF len >= 3 /\ LoadBytes(m, ptr, 3) = << 239, 187, 191 >>
    THEN Return(m, Utf8Decode(LoadBytes(m, ptr + 3, len - 3)))
  ELSE Return(m, Utf8Decode(LoadBytes(m, ptr, len)))

AlignUp(p, align) == ((p + align - 1) \div align) * align

\* the grow loop of the guest allocator: memory.size once `needed` fits
PagesFor(needed, pages) ==
  IF needed > pages * PageSize THEN (needed + PageSize - 1) \div PageSize ELSE pages

\* the guest's cabi_realloc(0, 0, align, size): a bump allocator that grows memory
CabiRealloc(m, align, size) ==
  [ m EXCEPT !.heap = AlignUp(m.heap, align) + size,
             !.pages = PagesFor(AlignUp(m.heap, align) + size, m.pages),
             !.gen = @ + (PagesFor(AlignUp(m.heap, align) + size, m.pages) - m.pages),
             !.nalloc = @ + 1,
             !.ev = Append(@, Ev("alloc", AlignUp(m.heap, align), size, 0, <<>>, TRUE)),
             !.ret = AlignUp(m.heap, align) ]

\* alloc that calls the export without looking whether it is there
AllocUnchecked(m, size, align) ==
  IF ~Ok(m) THEN m ELSE CabiRealloc(m, align, size)

\* alloc(size, align)
Alloc(m, size, align) ==
  IF ~Ok(m) THEN m
  ELSE IF ~m.realloc THEN Throw(m, MsgMissingRealloc)
  ELSE CabiRealloc(m, align, size)

\* writeString as it would be with the view taken before the allocation
WriteStringStaleView(m, str) ==
  Then(Utf8Encode(str), LAMBDA bytes :
  Then(Alloc(m, Len(bytes), 1), LAMBDA m1 :
    Return(StoreBytes(m1, GetView(m), m1.ret, bytes, "write"),
           [ptr |-> m1.ret, len |-> Len(bytes)])))

\* writeString(str): {ptr, len}
WriteString(m, str) ==
  Then(Utf8Encode(str), LAMBDA bytes :
  Then(Alloc(m, Len(bytes), 1), LAMBDA m1 :
    Return(StoreBytes(m1, GetView(m1), m1.ret, bytes, "write"),
           [ptr |-> m1.ret, len |-> Len(bytes)])))

\* the two setUint32 calls that write the {pointer, length} header s at `at`;
\* the elements it announces are `stride` bytes each
PutHeader(m, view, at, s, stride) ==
  Note(SetUint32(SetUint32(m, view, at, s.ptr), view, at + 4, s.len),
       Ev("ref", s.ptr, s.len * stride, s.len, <<>>, TRUE))

(***************************************************************************)
(* Bookmark nodes: [id, parentId, title, url, kids, children]; parentId,   *)
(* title and url are strings or UndefStr, kids says whether the node has   *)
(* a children property at all.  JS truthiness: undefined and "" are falsy. *)
(***************************************************************************)
Truthy(s) == s # UndefStr /\ s # <<>>

OrEmpty(s) == IF Truthy(s) THEN s ELSE <<>>

\* view = this.getView(); view.setUint32(at, 1, true); then the header of
\* the value m.ret that was just encoded
SetOption(m, at, stride) ==
  PutHeader(PutDisc(m, GetView(m), at, 1), GetView(m), at + 4, m.ret, stride)

\* an else branch that leaves the discriminant slot as the allocator returned it
ClearOptionSkipped(m, at) == m

\* an else branch that marks the option as present
ClearOptionWritesOne(m, at) == PutDisc(m, GetView(m), at, 1)

\* this.getView().setUint32(at, 0, true)
ClearOption(m, at) == PutDisc(m, GetView(m), at, 0)

RECURSIVE EncodeBookmarkNode(_, _, _)
RECURSIVE EncodeBookmarkList(_, _)
RECURSIVE EncodeNodesFrom(_, _, _, _)

\* a test that takes an empty children array for children
HasChildrenArray(node) == node.kids

\* node.children && node.children.length > 0
HasChildren(node) == node.kids /\ Len(node.children) > 0

\* encodeBookmarkNode(node, targetPtr); targetPtr = 0 stands for null
\* (targetPtr || this.alloc(52, 4) allocates for either)
EncodeBookmarkNode(m, node, targetPtr) ==
  Then(IF targetPtr # 0 THEN Return(m, targetPtr) ELSE Alloc(m, NodeSize, 4), LAMBDA m0 :
  Then(WriteString(Note(m0, Ev("node", m0.ret, NodeSize, 0, <<>>, TRUE)), node.id),
       LAMBDA m1 :
  Then(PutHeader(m1, GetView(m1), m0.ret + 0, m1.ret, 1), LAMBDA m2 :
  Then(IF Truthy(node.parentId)
       THEN SetOption(WriteString(m2, node.parentId), m0.ret + 8, 1)
       ELSE ClearOption(m2, m0.ret + 8), LAMBDA m3 :
  Then(WriteString(m3, OrEmpty(node.title)), LAMBDA m4 :
  Then(PutHeader(m4, GetView(m4), m0.ret + 20, m4.ret, 1), LAMBDA m5 :
  Then(IF Truthy(node.url)
       THEN SetOption(WriteString(m5, node.url), m0.ret + 28, 1)
       ELSE ClearOption(m5, m0.ret + 28), LAMBDA m6 :
  Then(IF HasChildren(node)
       THEN SetOption(EncodeBookmarkList(m6, node.children), m0.ret + 40, NodeSize)
       ELSE ClearOption(m6, m0.ret + 40), LAMBDA m7 :
    Return(m7, m0.ret)))))))))

RECURSIVE EncodeNodesApart(_, _, _, _)
\* a loop that lets encodeBookmarkNode allocate a record for each node
EncodeNodesApart(m, nodes, i, listPtr) ==
  IF i >= Len(nodes) \/ ~Ok(m) THEN m
  ELSE EncodeNodesApart(EncodeBookmarkNode(m, nodes[i + 1], 0), nodes, i + 1, listPtr)

\* the for loop of encodeBookmarkList, from index i (0-based)
EncodeNodesFrom(m, nodes, i, listPtr) ==
  IF i >= Len(nodes) \/ ~Ok(m) THEN m
  ELSE EncodeNodesFrom(EncodeBookmarkNode(m, nodes[i + 1], listPtr + i * NodeSize),
                       nodes, i + 1, listPtr)

\* encodeBookmarkList(nodes): {ptr, len}
EncodeBookmarkList(m, nodes) ==
  Then(Alloc(m, Len(nodes) * NodeSize, 4), LAMBDA m1 :
    Return(EncodeNodesFrom(m1, nodes, 0, m1.ret),
           [ptr |-> m1.ret, len |-> Len(nodes)]))

RECURSIVE EncodeStringsFrom(_, _, _, _)
\* the forEach of encodeStringList, from index i (0-based): the view is
\* taken again after each writeString
EncodeStringsFrom(m, strs, i, listPtr) ==
  IF i >= Len(strs) \/ ~Ok(m) THEN m
  ELSE Then(WriteString(m, strs[i + 1]), LAMBDA m1 :
         EncodeStringsFrom(PutHeader(m1, GetView(m1), listPtr + i * HeaderSize, m1.ret, 1),
                           strs, i + 1, listPtr))

\* an encodeStringList that leaves out the empty strings
EncodeStringListSkipsEmpty(m, strs) ==
  Then(SelectSeq(strs, LAMBDA x : x # <<>>), LAMBDA kept :
  Then(Alloc(m, Len(kept) * HeaderSize, 4), LAMBDA m1 :
    Return(EncodeStringsFrom(m1, kept, 0, m1.ret),
           [ptr |-> m1.ret, len |-> Len(kept)])))

\* encodeStringList(strs): {ptr, len}
EncodeStringList(m, strs) ==
  Then(Alloc(m, Len(strs) * HeaderSize, 4), LAMBDA m1 :
    Return(EncodeStringsFrom(m1, strs, 0, m1.ret),
           [ptr |-> m1.ret, len |-> Len(strs)]))

(***************************************************************************)
(* The database engine behind SQLiteManager (sql.js), as far as the guest  *)
(* statements of the data section exercise it.  A database is its tables   *)
(* (name -> rows) and the row count of its last INSERT (getRowsModified).  *)
(***************************************************************************)
EmptyDb == [ tabs |-> <<>>, changes |-> 0 ]

IntCell(n) == [ t |-> "int", n |-> n, s |-> <<>> ]
TextCell(s) == [ t |-> "text", n |-> 0, s |-> s ]

HelloRow == << IntCell(1), TextCell(HelloText) >>

\* a conversion that renders every cell as the empty string
CellToStringBlank(c) == <<>>

\* String(v ?? '')
CellToString(c) ==
  IF c.t = "null" THEN <<>> ELSE IF c.t = "int" THEN DecimalString(c.n) ELSE c.s

SqlFails(db, msg) == [ db |-> db, err |-> msg, res |-> <<>> ]

\* db.exec(sql): [db, err, res]; res is the list of result sets
SqlExec(db, sql) ==
  IF sql = SqlCreateText
    THEN [ db |-> IF TableNameText \in DOMAIN db.tabs THEN db
                  ELSE [db EXCEPT !.tabs = (TableNameText :> <<>>) @@ db.tabs],
           err |-> NoThrow, res |-> <<>> ]
  ELSE IF sql = SqlInsertText
    THEN IF TableNameText \notin DOMAIN db.tabs THEN SqlFails(db, EngineNoTableMsg)
         ELSE [ db |-> [db EXCEPT !.tabs[TableNameText] = Append(@, HelloRow),
                                  !.changes = 1],
                err |-> NoThrow, res |-> <<>> ]
  ELSE IF sql = SqlSelectText
    THEN IF TableNameText \notin DOMAIN db.tabs THEN SqlFails(db, EngineNoTableMsg)
         ELSE [ db |-> db, err |-> NoThrow,
                res |-> IF db.tabs[TableNameText] = <<>> THEN <<>>
                        ELSE << [ columns |-> << ColIdText, ColValText >>,
                                  values |-> db.tabs[TableNameText] ] >> ]
  ELSE SqlFails(db, EngineSyntaxMsg)

\* SQLiteManager.initDatabase(collectionName), on the map of handles
InitDatabase(dbs, name) ==
  IF name \in DOMAIN dbs THEN dbs ELSE (name :> EmptyDb) @@ dbs

\* db.export() then _arrayBufferToBase64: the serialised contents
ExportDb(db) == db.tabs

CheckpointKey(name) == CheckpointPrefix \o name

\* execute without its saveCheckpoint call
SaveCheckpointSkipped(dbs, pend, name) == pend

\* a saveCheckpoint that stores an empty database whatever the handle holds
SaveCheckpointIssueBlank(dbs, pend, name) ==
  IF name \notin DOMAIN dbs THEN pend
  ELSE Append(pend, [ op |-> "set", key |-> CheckpointKey(name), val |-> <<>> ])

\* SQLiteManager.saveCheckpoint up to its await: the snapshot is taken and
\* chrome.storage.local.set is called with it; the write completes later
SaveCheckpointIssue(dbs, pend, name) ==
  IF name \notin DOMAIN dbs THEN pend
  ELSE Append(pend, [ op |-> "set", key |-> CheckpointKey(name),
                      val |-> ExportDb(dbs[name]) ])

(***************************************************************************)
(* The host capability surface.  A capability works on a host record       *)
(* [m, logs, dbs, pend]: the runtime, executionLogs, the manager's handles *)
(* and the storage writes issued and not yet completed.  An exception that *)
(* leaves the capability is h.m.err.                                       *)
(***************************************************************************)
\* the catch block shared by execute (size 12), query (20) and get-tree (12),
\* and the body of create
ErrResult(m, msg, size) ==
  Then(WriteString(m, msg), LAMBDA m1 :
  Then(Alloc(m1, size, 4), LAMBDA m2 :
    Return(PutHeader(PutDisc(m2, GetView(m2), m2.ret, 1), GetView(m2), m2.ret + 4,
                     m1.ret, 1),
           m2.ret)))

\* a try block without its catch: the exception leaves the capability
CatchRethrows(tried, size) == tried

\* try { ... } catch (e) { handler }: the exception of `tried` is caught
Catch(tried, size) ==
  IF Ok(tried) THEN tried
  ELSE ErrResult([tried EXCEPT !.err = NoThrow], tried.err, size)

\* the try body of execute once db.exec has returned
ExecuteOk(m, changes) ==
  Then(Alloc(m, 12, 4), LAMBDA m1 :
    Return(SetUint32(PutDisc(m1, GetView(m1), m1.ret, 0), GetView(m1), m1.ret + 4,
                     changes),
           m1.ret))

\* execute from its try block on, with the decoded dbName and sql
ExecuteTry(h, m, dbName, sql) ==
  Then(InitDatabase(h.dbs, dbName), LAMBDA dbs1 :
  Then(SqlExec(dbs1[dbName], sql), LAMBDA x :
    IF x.err # NoThrow
    THEN [h EXCEPT !.m = Catch(Throw(m, x.err), 12), !.dbs = dbs1, !.sqlerr = x.err,
                   !.sql = sql]
    ELSE [h EXCEPT !.m = Catch(ExecuteOk(m, x.db.changes), 12), !.sql = sql,
                   !.dbs = [dbs1 EXCEPT ![dbName] = x.db],
                   !.pend = SaveCheckpointIssue([dbs1 EXCEPT ![dbName] = x.db],
                                                h.pend, dbName)]))

\* sqliteHost.execute(dbNamePtr, dbNameLen, sqlPtr, sqlLen)
SqliteExecute(h, a) ==
  Then(ReadString(h.m, a.dbPtr, a.dbLen), LAMBDA r1 :
  Then(ReadString(r1, a.sqlPtr, a.sqlLen), LAMBDA r2 :
    IF ~Ok(r2) THEN [h EXCEPT !.m = r2]
    ELSE ExecuteTry(h, r2, r1.ret, r2.ret)))

RECURSIVE EncodeRowsFrom(_, _, _, _)
\* rows.map(r => ...) of query, from index i (0-based); acc collects rowPtrs
EncodeRowsFrom(m, rows, i, acc) ==
  IF ~Ok(m) THEN m
  ELSE IF i >= Len(rows) THEN Return(m, acc)
  ELSE Then(EncodeStringList(m, [ j \in 1..Len(rows[i + 1]) |->
                                    CellToString(rows[i + 1][j]) ]), LAMBDA m1 :
       Then(Alloc(m1, 8, 4), LAMBDA m2 :
         EncodeRowsFrom(PutHeader(m2, GetView(m2), m2.ret, m1.ret, HeaderSize),
                        rows, i + 1, Append(acc, m2.ret))))

RECURSIVE ConcatLE32(_)
\* the bytes of a Uint32Array holding vals
ConcatLE32(vals) ==
  IF vals = <<>> THEN <<>> ELSE LE32(Head(vals)) \o ConcatLE32(Tail(vals))

\* a query-result record with the rows header before the columns header
QueryResultRowsFirst(m, colEncoded, rowsList) ==
  Then(Alloc(m, 16, 4), LAMBDA m5 :
  Then(PutHeader(PutHeader(m5, GetView(m5), m5.ret, rowsList, RowSize),
                 GetView(m5), m5.ret + 8, colEncoded, HeaderSize), LAMBDA m6 :
  Then(Alloc(m6, 20, 4), LAMBDA m7 :
  Then(PutDisc(m7, GetView(m7), m7.ret, 0), LAMBDA m8 :
    Return(IF Ok(m8)
           THEN StoreBytes(m8, GetView(m8), m7.ret + 4, LoadBytes(m8, m5.ret, 16), "write")
           ELSE m8,
           m7.ret)))))

\* the tail of the try body of query: the query-result record at qrPtr and
\* the result at resultPtr, whose payload is a copy of the 16 bytes at qrPtr
QueryResult(m, colEncoded, rowsList) ==
  Then(Alloc(m, 16, 4), LAMBDA m5 :
  Then(PutHeader(PutHeader(m5, GetView(m5), m5.ret, colEncoded, HeaderSize),
                 GetView(m5), m5.ret + 8, rowsList, RowSize), LAMBDA m6 :
  Then(Alloc(m6, 20, 4), LAMBDA m7 :
  Then(PutDisc(m7, GetView(m7), m7.ret, 0), LAMBDA m8 :
    Return(IF Ok(m8)
           THEN StoreBytes(m8, GetView(m8), m7.ret + 4, LoadBytes(m8, m5.ret, 16), "write")
           ELSE m8,
           m7.ret)))))

\* the try body of query once the statement has run
QueryOk(m, res) ==
  Then(EncodeStringList(m, IF Len(res) > 0 THEN res[1].columns ELSE <<>>), LAMBDA m1 :
  Then(EncodeRowsFrom(m1, IF Len(res) > 0 THEN res[1].values ELSE <<>>, 0, <<>>),
       LAMBDA m2 :
  Then(Alloc(m2, Len(m2.ret) * 4, 4), LAMBDA m3 :
    QueryResult(StoreBytes(m3, GetView(m3), m3.ret, ConcatLE32(m2.ret), "write"),
                m1.ret, [ptr |-> m3.ret, len |-> Len(m2.ret)]))))

\* a query that saves a checkpoint as execute does
QueryTrySaves(h, m, dbName, sql) ==
  Then(InitDatabase(h.dbs, dbName), LAMBDA dbs1 :
  Then(SqlExec(dbs1[dbName], sql), LAMBDA x :
    IF x.err # NoThrow
    THEN [h EXCEPT !.m = Catch(Throw(m, x.err), 20), !.dbs = dbs1, !.sqlerr = x.err,
                   !.sql = sql]
    ELSE [h EXCEPT !.m = Catch(QueryOk(m, x.res), 20), !.sql = sql,
                   !.dbs = [dbs1 EXCEPT ![dbName] = x.db],
                   !.pend = SaveCheckpointIssue([dbs1 EXCEPT ![dbName] = x.db],
                                                h.pend, dbName)]))

\* query from its try block on, with the decoded dbName and sql
QueryTry(h, m, dbName, sql) ==
  Then(InitDatabase(h.dbs, dbName), LAMBDA dbs1 :
  Then(SqlExec(dbs1[dbName], sql), LAMBDA x :
    IF x.err # NoThrow
    THEN [h EXCEPT !.m = Catch(Throw(m, x.err), 20), !.dbs = dbs1, !.sqlerr = x.err,
                   !.sql = sql]
    ELSE [h EXCEPT !.m = Catch(QueryOk(m, x.res), 20), !.sql = sql,
                   !.dbs = [dbs1 EXCEPT ![dbName] = x.db]]))

\* sqliteHost.query(dbNamePtr, dbNameLen, sqlPtr, sqlLen)
SqliteQuery(h, a) ==
  Then(ReadString(h.m, a.dbPtr, a.dbLen), LAMBDA r1 :
  Then(ReadString(r1, a.sqlPtr, a.sqlLen), LAMBDA r2 :
    IF ~Ok(r2) THEN [h EXCEPT !.m = r2]
    ELSE QueryTry(h, r2, r1.ret, r2.ret)))

\* a try body that takes an empty cached tree for a cache not yet filled
GetTreeTryEmptyUnready(m, cache) ==
  IF ~cache.set \/ cache.tree = <<>> THEN Throw(m, MsgCacheNotReady)
  ELSE Then(EncodeBookmarkList(m, cache.tree), LAMBDA m1 :
       Then(Alloc(m1, 12, 4), LAMBDA m2 :
         Return(PutHeader(PutDisc(m2, GetView(m2), m2.ret, 0), GetView(m2), m2.ret + 4,
                          m1.ret, NodeSize),
                m2.ret)))

\* the try body of get-tree
GetTreeTry(m, cache) ==
  IF ~cache.set THEN Throw(m, MsgCacheNotReady)
  ELSE Then(EncodeBookmarkList(m, cache.tree), LAMBDA m1 :
       Then(Alloc(m1, 12, 4), LAMBDA m2 :
         Return(PutHeader(PutDisc(m2, GetView(m2), m2.ret, 0), GetView(m2), m2.ret + 4,
                          m1.ret, NodeSize),
                m2.ret)))

\* "chrome:bookmarks/bookmarks"."get-tree"(), reading bookmarkCache
BookmarksGetTree(h, cache) == [h EXCEPT !.m = Catch(GetTreeTry(h.m, cache), 12)]

\* a create that decodes its arguments before it refuses
BookmarksCreateReadsArgs(h, titlePtr, titleLen, urlPtr, urlLen) ==
  [h EXCEPT !.m = ErrResult(ReadString(ReadString(h.m, titlePtr, titleLen),
                                       urlPtr, urlLen),
                            MsgCreateUnavailable, 12)]

\* "chrome:bookmarks/bookmarks"."create"(titlePtr, titleLen, urlPtr, urlLen):
\* the arguments are not looked at
BookmarksCreate(h, titlePtr, titleLen, urlPtr, urlLen) ==
  [h EXCEPT !.m = ErrResult(h.m, MsgCreateUnavailable, 12)]

\* "chrome:bookmarks"."create"(...args): forwards to the one above
BookmarksCreateAlias(h, titlePtr, titleLen, urlPtr, urlLen) ==
  BookmarksCreate(h, titlePtr, titleLen, urlPtr, urlLen)

\* a log import that decodes the range and does not push it
PushLogDropped(h, m) == [h EXCEPT !.m = m]

\* executionLogs.push(msg), msg being what readString returned in m
PushLog(h, m) ==
  IF Ok(m) THEN [h EXCEPT !.m = m, !.logs = Append(@, m.ret)] ELSE [h EXCEPT !.m = m]

\* env.log(ptr, len)
EnvLog(h, ptr, len) == PushLog(h, ReadString(h.m, ptr, len))

RECURSIVE FdWriteFrom(_, _, _, _, _, _)
\* the for loop of fd_write from iovec i (0-based); total is totalWritten
FdWriteFrom(h, view, iovs_ptr, iovs_len, i, total) ==
  IF ~Ok(h.m) THEN h
  ELSE IF i >= iovs_len THEN [h EXCEPT !.m = Return(h.m, total)]
  ELSE Then(GetUint32(h.m, view, iovs_ptr + i * 8), LAMBDA m1 :
       Then(GetUint32(m1, view, iovs_ptr + i * 8 + 4), LAMBDA m2 :
         FdWriteFrom(PushLog(h, ReadString(m2, m1.ret, m2.ret)), view, iovs_ptr,
                     iovs_len, i + 1, total + m2.ret)))

\* wasi_snapshot_preview1.fd_write(fd, iovs_ptr, iovs_len, nwritten_ptr)
FdWrite(h, iovs_ptr, iovs_len, nwritten_ptr) ==
  Then(FdWriteFrom(h, GetView(h.m), iovs_ptr, iovs_len, 0, 0), LAMBDA h1 :
    [h1 EXCEPT !.m = Return(StoreBytes(h1.m, GetView(h.m), nwritten_ptr,
                                       LE32(h1.m.ret), "out"), 0)])

\* a proc_exit that ends the guest's run by unwinding it
ProcExitUnwinds(h, code) == [h EXCEPT !.m = Throw(h.m, EngineTrapMsg), !.code = code]

\* wasi_snapshot_preview1.proc_exit(code): logs to the console and returns
ProcExit(h, code) == [h EXCEPT !.m = Return(h.m, 0), !.code = code]

(***************************************************************************)
(* The payload of a message: btoa and atob on binary strings (code units   *)
(* 0..255), and the handler's unwrapping of the module bytes.  atob is the *)
(* forgiving decoder without its whitespace step: up to two "=" are taken  *)
(* off a string whose length is a multiple of 4, a length of 4k + 1 or a   *)
(* character outside the alphabet is an error, leftover bits are dropped.  *)
(***************************************************************************)
\* "ABCDEFGHIJKLMNOPQRSTUVWXYZabcdefghijklmnopqrstuvwxyz0123456789+/"
B64Chars ==
  <<65, 66, 67, 68, 69, 70, 71, 72, 73, 74, 75, 76, 77, 78, 79, 80, 81, 82, 83, 84, 85, 86, 87, 88, 89, 90, 97, 98, 99, 100, 101, 102, 103, 104, 105, 106, 107, 108, 109, 110, 111, 112, 113, 114, 115, 116, 117, 118, 119, 120, 121, 122, 48, 49, 50, 51, 52, 53, 54, 55, 56, 57, 43, 47>>

\* "\0asm" and the version word that follows it in a binary module
WasmPreamble == << 0, 97, 115, 109, 1, 0, 0, 0 >>

RECURSIVE Btoa(_)
Btoa(b) ==
  IF b = <<>> THEN <<>>
  ELSE IF Len(b) = 1
    THEN << B64Chars[b[1] \div 4 + 1], B64Chars[(b[1] % 4) * 16 + 1], 61, 61 >>
  ELSE IF Len(b) = 2
    THEN << B64Chars[b[1] \div 4 + 1], B64Chars[(b[1] % 4) * 16 + b[2] \div 16 + 1],
            B64Chars[(b[2] % 16) * 4 + 1], 61 >>
  ELSE << B64Chars[b[1] \div 4 + 1], B64Chars[(b[1] % 4) * 16 + b[2] \div 16 + 1],
          B64Chars[(b[2] % 16) * 4 + b[3] \div 64 + 1], B64Chars[(b[3] % 64) + 1] >>
       \o Btoa(SubSeq(b, 4, Len(b)))

RECURSIVE AtobBody(_)
\* the bytes of a string of alphabet characters, 6 bits each
AtobBody(v) ==
  IF Len(v) < 2 THEN <<>>
  ELSE IF Len(v) = 2 THEN << v[1] * 4 + v[2] \div 16 >>
  ELSE IF Len(v) = 3
    THEN << v[1] * 4 + v[2] \div 16, (v[2] % 16) * 16 + v[3] \div 4 >>
  ELSE << v[1] * 4 + v[2] \div 16, (v[2] % 16) * 16 + v[3] \div 4,
          (v[3] % 4) * 64 + v[4] >>
       \o AtobBody(SubSeq(v, 5, Len(v)))

\* atob(s): [err, val]; err is the message of the exception it throws
Atob(s) ==
  Then(IF Len(s) % 4 = 0 /\ Len(s) >= 2 /\ s[Len(s)] = 61
       THEN SubSeq(s, 1, Len(s) - (IF s[Len(s) - 1] = 61 THEN 2 ELSE 1))
       ELSE s, LAMBDA t :
    IF Len(t) % 4 = 1 \/ \E k \in DOMAIN t : \A v \in DOMAIN B64Chars : B64Chars[v] # t[k]
    THEN [ err |-> <<70, 97, 105, 108, 101, 100, 32, 116, 111, 32, 101, 120, 101, 99, 117, 116, 101, 32, 39, 97, 116, 111, 98, 39, 32, 111, 110, 32, 39, 87, 111, 114, 107, 101, 114, 71, 108, 111, 98, 97, 108, 83, 99, 111, 112, 101, 39, 58, 32, 84, 104, 101, 32, 115, 116, 114, 105, 110, 103, 32, 116, 111, 32, 98, 101, 32, 100, 101, 99, 111, 100, 101, 100, 32, 105, 115, 32, 110, 111, 116, 32, 99, 111, 114, 114, 101, 99, 116, 108, 121, 32, 101, 110, 99, 111, 100, 101, 100, 46>>,
           val |-> <<>> ]
    ELSE [ err |-> NoThrow,
           val |-> AtobBody([ k \in DOMAIN t |->
                               (CHOOSE v \in DOMAIN B64Chars : B64Chars[v] = t[k]) - 1 ]) ])

\* a handler that decodes once and never looks for a second layer
RequestBytesOnce(data) ==
  [ err |-> Atob(data).err, bytes |-> Atob(data).val ]

\* the handler from atob(data) to the Uint8Array `bytes`: [err, bytes]
RequestBytes(data) ==
  Then(Atob(data), LAMBDA first :
    IF first.err # NoThrow THEN [ err |-> first.err, bytes |-> <<>> ]
    ELSE IF Len(first.val) >= 4 /\ first.val[1] # 0
            /\ SubSeq(first.val, 1, 4) = SubSeq(Btoa(WasmPreamble), 1, 4)
            /\ Atob(first.val).err = NoThrow
      THEN [ err |-> NoThrow, bytes |-> Atob(first.val).val ]
    ELSE [ err |-> NoThrow, bytes |-> first.val ])

(***************************************************************************)
(* Inputs: the guest modules a message can carry, the arguments a guest    *)
(* passes, and the trees chrome.bookmarks.getTree can return.              *)
(***************************************************************************)
Guest(data, link, run, main, realloc, heap0, dirty) ==
  [ data |-> data, link |-> link, run |-> run, main |-> main, realloc |-> realloc,
    heap0 |-> heap0, dirty |-> dirty ]

\* the binary of a module, as far as the handler looks at it: the preamble
\* and a section whose length varies with the exports
ModuleBytes(g) ==
  WasmPreamble \o (IF g.run THEN << 7, 114 >> ELSE <<>>)
  \o (IF g.main THEN << 109 >> ELSE <<>>) \o (IF g.realloc THEN << 99, 255 >> ELSE <<>>)

\* the modules of the lifecycle specification
Guests ==
  { Guest(TRUE, TRUE, TRUE, FALSE, TRUE, HeapBase, 0),
    Guest(TRUE, TRUE, FALSE, TRUE, TRUE, HeapBase, 0),
    Guest(TRUE, TRUE, TRUE, TRUE, TRUE, HeapBase, 0),
    Guest(TRUE, TRUE, FALSE, FALSE, TRUE, HeapBase, 0),
    Guest(TRUE, TRUE, TRUE, FALSE, FALSE, HeapBase, 0),
    Guest(TRUE, FALSE, TRUE, FALSE, TRUE, HeapBase, 0),
    Guest(FALSE, TRUE, TRUE, FALSE, TRUE, HeapBase, 0) }

\* what every byte of a used heap holds in the module whose heap is dirty
DirtyByte == 127

\* the modules of the capability specification: one whose heap is dirty, one
\* whose heap starts at the end of its memory (every allocation grows it),
\* one without the allocator export
CapGuests ==
  { Guest(TRUE, TRUE, TRUE, FALSE, TRUE, HeapBase, DirtyByte),
    Guest(TRUE, TRUE, FALSE, TRUE, TRUE, InitialPages * PageSize - 8, 0),
    Guest(TRUE, TRUE, TRUE, FALSE, FALSE, HeapBase, 0) }

\* the verification guest of media.js: exports main and cabi_realloc
VerificationGuest == Guest(TRUE, TRUE, FALSE, TRUE, TRUE, HeapBase, 0)

SqlArgs(s) ==
  [ dbPtr |-> GuestLayout.db.ptr, dbLen |-> GuestLayout.db.len,
    sqlPtr |-> s.ptr, sqlLen |-> s.len ]

ExecuteArgs ==
  { SqlArgs(GuestLayout.create), SqlArgs(GuestLayout.insert),
    SqlArgs(GuestLayout.success), SqlArgs(GuestLayout.oob) }

QueryArgs ==
  { SqlArgs(GuestLayout.select), SqlArgs(GuestLayout.insert), SqlArgs(GuestLayout.oob) }

LogArgs == { GuestLayout.success, GuestLayout.db, GuestLayout.oob }

IovecArrays == { GuestLayout.iovsGood, GuestLayout.iovsBad }

ReturnCodes == { 0, 1 }

Node(id, parentId, title, url, kids, children) ==
  [ id |-> id, parentId |-> parentId, title |-> title, url |-> url, kids |-> kids,
    children |-> children ]

\* a root with a folder holding a bookmark and an empty folder
SampleTree ==
  << Node(<<48>>, UndefStr, <<>>, UndefStr, TRUE,
       << Node(<<49>>, <<48>>, <<66>>, UndefStr, TRUE,
            << Node(<<50>>, <<49>>, <<97>>, <<117>>, FALSE, <<>>),
               Node(<<51>>, <<49>>, <<69>>, UndefStr, TRUE, <<>>) >>) >>) >>

Trees == { <<>>, SampleTree }

(***************************************************************************)
(* State.                                                                  *)
(***************************************************************************)
VARIABLES
  inv,            \* the runWasmPacketItem handler of each message
  running,        \* the invocation whose guest is executing (0: none)
  rt,             \* the WasmRuntime of the executing guest
  call,           \* the last host call of the executing guest
  fuel,           \* host calls the guests may still make
  nextInst,       \* instances WebAssembly.instantiate has created
  databases,      \* sqliteManager.databases
  storage,        \* chrome.storage.local
  pending,        \* chrome.storage.local set/remove calls issued and not completed
  bookmarkCache,  \* the service worker's bookmarkCache
  sw,             \* the handlers of the collection messages, and the worker's starts
  boot,           \* initializeSQLite: its globals and the calls made of it
  groups,         \* the stored activeGroups map and the handlers that update it
  msgs            \* the messages delivered to the sidebar build's handleMessage

vars ==
  << inv, running, rt, call, fuel, nextInst, databases, storage, pending, bookmarkCache,
     sw, boot, groups, msgs >>

\* sw.handlers: one record per collection message delivered to handleMessage, in
\* order of arrival: its action and collection, where the handler stands (pc:
\* "set"/"get" awaiting chrome.storage.local, "done" once sendResponse ran, "lost"
\* if the worker stopped first), how many storage calls are ahead of and including
\* its own (wait), what saveCheckpoint exported for it (snap), whether its
\* statement changed the database (wrote), and the response (resp, restored).
\* sw.boots counts the worker's restarts; sw.last names, per storage key, the
\* handler whose write completed last; sw.names is the list the last
\* restoreAllCheckpoints returned.
NoSync == [ calls |-> 0, flying |-> 0, failed |-> 0, lastFailed |-> FALSE ]

NoSw == [ handlers |-> <<>>, boots |-> 0, last |-> <<>>, names |-> <<>>, sync |-> NoSync ]

\* boot: the globals SQL (loaded or not), sqliteManager (cur: the number of the
\* manager it refers to, 0 for null; made: managers constructed so far),
\* initialized and initializing (the call whose body is the promise, 0 for
\* null); restored: the managers on which a restoreAllCheckpoints has finished;
\* rejected: an await of the body has rejected; order: the calls in the order
\* they reached chrome.storage.local; calls[c]: where call c stands (pc), the
\* manager its restoreAllCheckpoints runs on (mgr), and for a message the
\* manager its action ran against (ran) and whether a restore of that manager
\* was unfinished then (early).  locked tells the initializer of part_003 from
\* the one of service-worker.js.
NoBoot ==
  [ locked |-> FALSE, SQL |-> FALSE, made |-> 0, cur |-> 0, restored |-> {},
    initialized |-> FALSE, initializing |-> 0, rejected |-> FALSE, order |-> <<>>,
    calls |-> <<>> ]

IdleCall == [ pc |-> "idle", mgr |-> 0, ran |-> 0, early |-> FALSE ]

\* groups: the activeGroups map in chrome.storage.local (stored), the get and
\* set calls on it in the order they were issued (queue), and the handlers that
\* issued them (procs), each with the map it read
NoGroups == [ stored |-> <<>>, queue |-> <<>>, procs |-> <<>> ]

Handler(action, name, pc, resp) ==
  [ action |-> action, name |-> name, pc |-> pc, wait |-> 0, snap |-> <<>>,
    wrote |-> FALSE, resp |-> resp, restored |-> FALSE ]

NoRt == [ alive |-> FALSE ]
NoCall ==
  [ op |-> "none", by |-> 0, oob |-> FALSE, threw |-> FALSE, ret |-> 0, disc |-> -1,
    sqlerr |-> NoThrow, sql |-> <<>>, list |-> <<>>, ev |-> <<>> ]

IdleInv ==
  [ phase |-> "Idle", guest |-> Guest(FALSE, FALSE, FALSE, FALSE, FALSE, 0, 0),
    data |-> UndefStr, module |-> <<>>, bytes |-> <<>>,
    logs |-> <<>>, sent |-> <<>>, exited |-> -1, entry |-> "none", entered |-> 0,
    returned |-> -1,
    inst |-> 0, insts |-> 0, resps |-> <<>> ]

\* the row sqlite_sequence keeps for an AUTOINCREMENT table: the largest id given
SeqOf(db, table) ==
  IF SeqName \in DOMAIN db.tabs /\ db.tabs[SeqName] # <<>>
  THEN db.tabs[SeqName][1][2].n ELSE 0

\* db.exec(`INSERT INTO <table> (name, ...) VALUES (...)`): the row gets the id
\* after the largest one the table ever gave
InsertEntry(db, table, name) ==
  IF table \notin DOMAIN db.tabs THEN SqlFails(db, EngineNoTableMsg)
  ELSE [ db |-> [ tabs |->
                    (table :> Append(db.tabs[table],
                                     << IntCell(SeqOf(db, table) + 1), TextCell(name) >>))
                    @@ (SeqName :> << << TextCell(table), IntCell(SeqOf(db, table) + 1) >> >>)
                    @@ db.tabs,
                  changes |-> 1 ],
         err |-> NoThrow, res |-> <<>> ]

\* db.exec(`DELETE FROM <table> WHERE rowid = <id>`)
DeleteEntry(db, table, id) ==
  IF table \notin DOMAIN db.tabs THEN SqlFails(db, EngineNoTableMsg)
  ELSE [ db |-> [ tabs |-> (table :> SelectSeq(db.tabs[table], LAMBDA r : r[1].n # id))
                           @@ db.tabs,
                  changes |-> Len(db.tabs[table])
                              - Len(SelectSeq(db.tabs[table], LAMBDA r : r[1].n # id)) ],
         err |-> NoThrow, res |-> <<>> ]

\* ensureWitsCollection's defaults: a row is inserted for each name that has none
EnsureDefault(db, name) ==
  IF \E i \in DOMAIN db.tabs[WitsName] : db.tabs[WitsName][i][2].s = name THEN db
  ELSE InsertEntry(db, WitsName, name).db

\* an ensure step that does nothing
EnsureCollectionSkipped(st, name) == st

\* ensurePacketsCollection / ensureSchemasCollection / ensureWitsCollection on
\* [dbs, storage]: the handle is made if absent, CREATE TABLE IF NOT EXISTS runs,
\* wits gets its defaults, and the checkpoint is saved (awaited)
EnsureCollection(st, name) ==
  Then(InitDatabase(st.dbs, name)[name], LAMBDA db0 :
  Then(IF name \in DOMAIN db0.tabs THEN db0
       ELSE [db0 EXCEPT !.tabs = (name :> <<>>) @@ db0.tabs], LAMBDA db1 :
  Then(IF name = WitsName
       THEN EnsureDefault(EnsureDefault(db1, WitBookmarksName), WitSqliteName)
       ELSE db1, LAMBDA db2 :
    [ dbs |-> (name :> db2) @@ st.dbs,
      storage |-> (CheckpointKey(name) :> ExportDb(db2)) @@ st.storage ])))

\* what an earlier session may have left in chrome.storage.local: nothing, or
\* the checkpoint of the guest's database with its table and one row
StoredCheckpoints ==
  { <<>>, (CheckpointKey(DbNameText) :> (TableNameText :> << HelloRow >>)) }

\* a restoreAllCheckpoints that restores nothing
RestoreAllCheckpointsNone(stored) == <<>>

\* a stored value that is not the Base64 of a database: atob throws on it
CorruptBlob == (UndefStr :> <<>>)

\* the keys of storage.get(null), as collection names
StoredNames == << DbNameText, PacketsName, SchemasName, WitsName >>

\* a loop that lets the first exception end it
RECURSIVE RestoreEachStops(_, _, _)
RestoreEachStops(acc, stored, names) ==
  IF names = <<>> THEN acc
  ELSE IF CheckpointKey(Head(names)) \notin DOMAIN stored
    THEN RestoreEachStops(acc, stored, Tail(names))
  ELSE IF stored[CheckpointKey(Head(names))] = CorruptBlob THEN acc
  ELSE RestoreEachStops(
         [ dbs |-> (Head(names) :> [ tabs |-> stored[CheckpointKey(Head(names))],
                                     changes |-> 0 ]) @@ acc.dbs,
           names |-> Append(acc.names, Head(names)) ],
         stored, Tail(names))

\* the loop of restoreAllCheckpoints over the stored keys: restoreCheckpoint is
\* tried for each, its exception is caught and logged, and the names it
\* returned true for are collected; acc is [dbs, names]
RECURSIVE RestoreEach(_, _, _)
RestoreEach(acc, stored, names) ==
  IF names = <<>> THEN acc
  ELSE IF \/ CheckpointKey(Head(names)) \notin DOMAIN stored
          \/ stored[CheckpointKey(Head(names))] = CorruptBlob
    THEN RestoreEach(acc, stored, Tail(names))
  ELSE RestoreEach(
         [ dbs |-> (Head(names) :> [ tabs |-> stored[CheckpointKey(Head(names))],
                                     changes |-> 0 ]) @@ acc.dbs,
           names |-> Append(acc.names, Head(names)) ],
         stored, Tail(names))

\* restoreAllCheckpoints(storage): the handles the manager holds afterwards
RestoreAllCheckpoints(stored) ==
  RestoreEach([ dbs |-> <<>>, names |-> <<>> ], stored, StoredNames).dbs

\* restoreAllCheckpoints(storage): the list it returns
RestoredCollections(stored) ==
  RestoreEach([ dbs |-> <<>>, names |-> <<>> ], stored, StoredNames).names

\* initializeSQLite() over what chrome.storage.local holds: every stored
\* checkpoint is restored, then the three system collections are ensured
InitializeSQLite(stored) ==
  EnsureCollection(EnsureCollection(EnsureCollection(
    [ dbs |-> RestoreAllCheckpoints(stored), storage |-> stored ],
    PacketsName), SchemasName), WitsName)

\* the service worker once initializeSQLite has completed over `stored`
InitOver(stored) ==
  /\ running = 0
  /\ rt = NoRt
  /\ call = NoCall
  /\ nextInst = 0
  /\ databases = InitializeSQLite(stored).dbs
  /\ storage = InitializeSQLite(stored).storage
  /\ pending = <<>>
  /\ bookmarkCache = [ set |-> FALSE, tree |-> <<>> ]
  /\ sw = NoSw

Init ==
  /\ InitOver(<<>>)
  /\ inv = [ i \in 1..MaxInv |-> IdleInv ]
  /\ fuel = MaxCalls
  /\ boot = NoBoot
  /\ groups = NoGroups
  /\ msgs = <<>>

InitCap ==
  /\ \E stored \in StoredCheckpoints : InitOver(stored)
  /\ inv = [ i \in 1..CapInv |-> IdleInv ]
  /\ fuel = CapCalls
  /\ boot = NoBoot
  /\ groups = NoGroups
  /\ msgs = <<>>

InitSql ==
  /\ InitOver(<<>>)
  /\ inv = [ i \in 1..SqlInv |-> IdleInv ]
  /\ fuel = SqlCalls
  /\ boot = NoBoot
  /\ groups = NoGroups
  /\ msgs = <<>>

(***************************************************************************)
(* sendResponse and the two ways a handler ends.                           *)
(***************************************************************************)
Success(result, logs) ==
  [ success |-> TRUE, hasResult |-> TRUE, result |-> result, error |-> UndefStr,
    hasLogs |-> TRUE, logs |-> logs ]

\* sendResponse({ success: false, error, logs })
FailureWithLogs(error, logs) ==
  [ success |-> FALSE, hasResult |-> FALSE, result |-> 0, error |-> error,
    hasLogs |-> TRUE, logs |-> logs ]

\* the catch block of the case: sendResponse({ success: false, error: err.message })
CaughtResponse(error) ==
  [ success |-> FALSE, hasResult |-> FALSE, result |-> 0, error |-> error,
    hasLogs |-> FALSE, logs |-> <<>> ]

\* a handler that instantiates again after a failure
RespondAndRetry(r, phase, resp) ==
  [ r EXCEPT !.phase = IF phase = "Failed" THEN "Instantiating" ELSE phase,
             !.resps = Append(@, resp) ]

Respond(r, phase, resp) == [ r EXCEPT !.phase = phase, !.resps = Append(@, resp) ]

(***************************************************************************)
(* The handler up to `await WebAssembly.instantiate(bytes, importObject)`. *)
(***************************************************************************)
\* a message arrives whose sender encoded the binary `module` of guest g as
\* `data` (UndefStr: the message has no data)
Deliver(i, g, module, data) ==
  /\ running = 0
  /\ inv[i].phase = "Idle"
  /\ \A j \in 1..(i - 1) : inv[j].phase # "Idle"
  /\ \E d \in { RequestBytes(data) } :
       inv' = [ inv EXCEPT ![i] =
                  IF data = UndefStr \/ data = <<>>
                  THEN Respond([ @ EXCEPT !.guest = g ], "Failed",
                               CaughtResponse(MsgNoData))
                  ELSE IF d.err # NoThrow
                  THEN Respond([ @ EXCEPT !.guest = g, !.data = data, !.module = module ],
                               "Failed", CaughtResponse(d.err))
                  ELSE [ @ EXCEPT !.phase = "Instantiating", !.guest = g, !.data = data,
                                  !.module = module, !.bytes = d.bytes ] ]
  /\ UNCHANGED << sw, boot, groups, msgs, running, rt, call, fuel, nextInst, databases, storage, pending,
                  bookmarkCache >>

Receive ==
  \E i \in DOMAIN inv, g \in Guests :
    Deliver(i, g, ModuleBytes(g), IF g.data THEN Btoa(ModuleBytes(g)) ELSE UndefStr)

ReceiveCap ==
  \E i \in DOMAIN inv, g \in CapGuests : Deliver(i, g, ModuleBytes(g), Btoa(ModuleBytes(g)))

ReceiveSql ==
  \E i \in DOMAIN inv :
    Deliver(i, VerificationGuest, ModuleBytes(VerificationGuest),
            Btoa(ModuleBytes(VerificationGuest)))

\* a message whose data is the binary encoded once or twice, or is the
\* single encoding with a character appended that is not Base64; the binary
\* ends in a custom section of 0 to 4 bytes
ReceivePayload ==
  \E i \in DOMAIN inv, g \in Guests,
     tail \in { <<>>, << 255 >>, << 0, 128 >>, << 255, 254, 253 >>, << 65, 71, 70, 122 >> },
     wrap \in { "once", "twice", "broken" } :
    /\ g.data
    /\ Deliver(i, g, ModuleBytes(g) \o tail,
               IF wrap = "once" THEN Btoa(ModuleBytes(g) \o tail)
               ELSE IF wrap = "twice" THEN Btoa(Btoa(ModuleBytes(g) \o tail))
               ELSE Btoa(ModuleBytes(g) \o tail) \o << 42 >>)

\* a rethrow that drops e.message
LinkErrorGeneric(message) == LinkErrorPrefix \o LinkErrorSuffix

\* `WASM LinkError: ${e.message}. Possible mismatch between generated code and host imports.`
LinkErrorMessage(message) == LinkErrorPrefix \o message \o LinkErrorSuffix

\* instantiate rejects with a WebAssembly.LinkError
InstantiateFails ==
  \E i \in DOMAIN inv :
    /\ running = 0
    /\ inv[i].phase = "Instantiating"
    /\ ~inv[i].guest.link
    /\ inv' = [ inv EXCEPT ![i] =
                  Respond(@, "Failed",
                          CaughtResponse(LinkErrorMessage(EngineLinkMsg))) ]
    /\ UNCHANGED << sw, boot, groups, msgs, running, rt, call, fuel, nextInst, databases, storage, pending,
                    bookmarkCache >>

\* a handler that looks for main first
EntryOfMainFirst(g) == IF g.main THEN "main" ELSE IF g.run THEN "run" ELSE "none"

\* the entry point the handler picks: run before main
EntryOf(g) == IF g.run THEN "run" ELSE IF g.main THEN "main" ELSE "none"

\* instantiate resolves, runtime.setInstance(instance), and the entry point
\* is called; the guest then runs until it returns or traps
Enter ==
  \E i \in DOMAIN inv :
    /\ running = 0
    /\ inv[i].phase = "Instantiating"
    /\ inv[i].guest.link
    /\ EntryOf(inv[i].guest) # "none"
    /\ inv' = [ inv EXCEPT ![i] =
                  [ @ EXCEPT !.phase = "Running", !.entry = EntryOf(inv[i].guest),
                             !.entered = @ + 1, !.inst = nextInst + 1, !.insts = @ + 1 ] ]
    /\ nextInst' = nextInst + 1
    /\ running' = i
    /\ rt' = NewRuntime(inv[i].guest)
    /\ call' = NoCall
    /\ UNCHANGED << sw, boot, groups, msgs, fuel, databases, storage, pending, bookmarkCache >>

\* instantiate resolves and the instance exports neither run nor main
NoEntryPoint ==
  \E i \in DOMAIN inv :
    /\ running = 0
    /\ inv[i].phase = "Instantiating"
    /\ inv[i].guest.link
    /\ EntryOf(inv[i].guest) = "none"
    /\ inv' = [ inv EXCEPT ![i] =
                  Respond([ @ EXCEPT !.inst = nextInst + 1, !.insts = @ + 1 ], "Failed",
                          FailureWithLogs(MsgNoEntry, @.logs)) ]
    /\ nextInst' = nextInst + 1
    /\ UNCHANGED << sw, boot, groups, msgs, running, rt, call, fuel, databases, storage, pending, bookmarkCache >>

(***************************************************************************)
(* The guest runs synchronously: between Enter and the response only the   *)
(* running guest's host calls happen in the service worker.                *)
(***************************************************************************)
\* imports bound to one log buffer that all handlers share
HostOfSharedLogs(i) ==
  [ m |-> rt,
    logs |-> inv[CHOOSE j \in DOMAIN inv :
                   \A k \in DOMAIN inv : Len(inv[j].logs) >= Len(inv[k].logs)].logs,
    dbs |-> databases, pend |-> pending, sqlerr |-> NoThrow, sql |-> <<>>,
    list |-> <<>>, code |-> -1 ]

\* the imports of invocation i: its runtime, its executionLogs, and the
\* manager shared by all
HostOf(i) ==
  [ m |-> rt, logs |-> inv[i].logs, dbs |-> databases, pend |-> pending,
    sqlerr |-> NoThrow, sql |-> <<>>, list |-> <<>>, code |-> -1 ]

CanCall(i) == running = i /\ inv[i].phase = "Running" /\ fuel > 0

\* the capabilities that return a pointer to a result
ResultOps == { "execute", "query", "get-tree", "create", "create-alias" }

\* a host call ends: it returns `ret` to the guest, or its exception unwinds
\* the entry point into the catch block of the case
HostCallEnds(i, op, oob, h, ret, sent) ==
  /\ inv' = [ inv EXCEPT ![i] =
                IF Ok(h.m)
                THEN [ @ EXCEPT !.logs = h.logs, !.sent = sent,
                                !.exited = IF h.code # -1 THEN h.code ELSE @ ]
                ELSE Respond([ @ EXCEPT !.logs = h.logs, !.sent = sent,
                                        !.exited = IF h.code # -1 THEN h.code ELSE @ ],
                             "Failed", CaughtResponse(h.m.err)) ]
  /\ running' = IF Ok(h.m) THEN i ELSE 0
  /\ rt' = IF Ok(h.m) THEN [ h.m EXCEPT !.ev = <<>>, !.ret = 0 ] ELSE NoRt
  /\ call' = [ op |-> op, by |-> i, oob |-> oob, threw |-> ~Ok(h.m),
               ret |-> IF Ok(h.m) THEN ret ELSE 0,
               disc |-> IF Ok(h.m) /\ op \in ResultOps
                        THEN FromLE32(LoadBytes(h.m, ret, 4)) ELSE -1,
               sqlerr |-> h.sqlerr, sql |-> h.sql, list |-> h.list, ev |-> h.m.ev ]
  /\ fuel' = fuel - 1
  /\ databases' = h.dbs
  /\ pending' = h.pend
  /\ UNCHANGED << sw, boot, groups, msgs, nextInst, storage, bookmarkCache >>

OutOfRange(m, p) == p.ptr + p.len > MemSize(m)

\* what the guest put into the range it passes
TextAt(p) ==
  IF p = GuestLayout.success THEN SuccessText
  ELSE IF p = GuestLayout.db THEN DbNameText
  ELSE [ k \in 1..p.len |-> 0 ]

GuestLogs ==
  \E i \in DOMAIN inv, p \in LogArgs :
    /\ CanCall(i)
    /\ \E h \in { EnvLog(HostOf(i), p.ptr, p.len) } :
         HostCallEnds(i, "log", OutOfRange(rt, p), h, 0,
                       IF OutOfRange(rt, p) THEN inv[i].sent
                       ELSE Append(inv[i].sent, TextAt(p)))

\* the ranges of an iovec array that can be read, up to the first that cannot
IovecTexts(m, iovs) ==
  IF iovs = GuestLayout.iovsGood THEN << SuccessText, DbNameText >>
  ELSE IF OutOfRange(m, GuestLayout.oob) THEN << SuccessText >>
  ELSE << SuccessText, TextAt(GuestLayout.oob) >>

GuestWrites ==
  \E i \in DOMAIN inv, iovs \in IovecArrays :
    /\ CanCall(i)
    /\ \E h \in { FdWrite(HostOf(i), iovs, 2, GuestLayout.nwritten) } :
         HostCallEnds(i, "fd_write",
                       iovs = GuestLayout.iovsBad /\ OutOfRange(rt, GuestLayout.oob),
                       h, 0, inv[i].sent \o IovecTexts(rt, iovs))

GuestExits ==
  \E i \in DOMAIN inv, code \in { 0, 3 } :
    /\ CanCall(i)
    /\ HostCallEnds(i, "proc_exit", FALSE, ProcExit(HostOf(i), code), 0, inv[i].sent)

\* the table of the guest's database is full: the model lets it grow no more
RowsFull(a) ==
  /\ a.sqlPtr = GuestLayout.insert.ptr
  /\ DbNameText \in DOMAIN databases
  /\ TableNameText \in DOMAIN databases[DbNameText].tabs
  /\ Len(databases[DbNameText].tabs[TableNameText]) >= MaxRows

SqlOutOfRange(m, a) ==
  a.dbPtr + a.dbLen > MemSize(m) \/ a.sqlPtr + a.sqlLen > MemSize(m)

GuestExecutes ==
  \E i \in DOMAIN inv, a \in ExecuteArgs :
    /\ CanCall(i)
    /\ ~RowsFull(a)
    /\ \E h \in { SqliteExecute(HostOf(i), a) } :
         HostCallEnds(i, "execute", SqlOutOfRange(rt, a), h, h.m.ret, inv[i].sent)

GuestQueries ==
  \E i \in DOMAIN inv, a \in QueryArgs :
    /\ CanCall(i)
    /\ ~RowsFull(a)
    /\ \E h \in { SqliteQuery(HostOf(i), a) } :
         HostCallEnds(i, "query", SqlOutOfRange(rt, a), h, h.m.ret, inv[i].sent)

GuestGetsTree ==
  \E i \in DOMAIN inv :
    /\ CanCall(i)
    /\ \E h \in { BookmarksGetTree(HostOf(i), bookmarkCache) } :
         HostCallEnds(i, "get-tree", FALSE, h, h.m.ret, inv[i].sent)

\* the guest calls create, through either namespace, with any title and url
GuestCreates ==
  \E i \in DOMAIN inv, t \in LogArgs, u \in LogArgs, alias \in BOOLEAN :
    /\ CanCall(i)
    /\ \E h \in { IF alias
                  THEN BookmarksCreateAlias(HostOf(i), t.ptr, t.len, u.ptr, u.len)
                  ELSE BookmarksCreate(HostOf(i), t.ptr, t.len, u.ptr, u.len) } :
         HostCallEnds(i, IF alias THEN "create-alias" ELSE "create",
                       OutOfRange(rt, t) \/ OutOfRange(rt, u), h, h.m.ret, inv[i].sent)

\* the host writes the string S into the guest's memory with writeString, as
\* every capability result does, and the guest passes the {ptr, len} it got
\* to env.log, which reads it with readString
GuestEchoes ==
  \E i \in DOMAIN inv,
     S \in { <<>>, << 0, 97, 115, 109 >>, SuccessText, << 104, 0 >>, << 233 >>, << 8364 >>,
             << 55357, 56832 >>, << 55296 >>, << 65279, 104 >> } :
    /\ CanCall(i)
    /\ \E w \in { WriteString(rt, S) } :
         HostCallEnds(i, "echo", FALSE,
                      IF Ok(w) THEN PushLog(HostOf(i), ReadString(w, w.ret.ptr, w.ret.len))
                      ELSE [ HostOf(i) EXCEPT !.m = w ],
                      w.ret, Append(inv[i].sent, S))

\* the host encodes the list L of strings for the guest with encodeStringList,
\* as sqlite.query does for the columns and for the values of each row
GuestGetsList ==
  \E i \in DOMAIN inv,
     L \in { <<>>, << <<>> >>, << << 104 >>, << 104 >> >>, << <<>>, << 104 >>, <<>> >>,
             << SuccessText, << 104 >> >>, << << 104 >>, SuccessText, << 104 >> >>,
             << << 104 >>, << 65279, 104 >> >> } :
    /\ CanCall(i)
    /\ \E h \in { [ HostOf(i) EXCEPT !.m = EncodeStringList(rt, L), !.list = L ] } :
         HostCallEnds(i, "list", FALSE, h, h.m.ret, inv[i].sent)

\* the entry point returns r: sendResponse({ success: true, result, logs })
EntryReturns ==
  \E i \in DOMAIN inv, r \in ReturnCodes :
    /\ running = i
    /\ inv[i].phase = "Running"
    /\ inv' = [ inv EXCEPT ![i] =
                  Respond([ @ EXCEPT !.returned = r ], "Completed", Success(r, @.logs)) ]
    /\ running' = 0
    /\ rt' = NoRt
    /\ call' = NoCall
    /\ UNCHANGED << sw, boot, groups, msgs, fuel, nextInst, databases, storage, pending, bookmarkCache >>

\* the guest executes unreachable: a WebAssembly.RuntimeError unwinds run()
GuestTraps ==
  \E i \in DOMAIN inv :
    /\ running = i
    /\ inv[i].phase = "Running"
    /\ inv' = [ inv EXCEPT ![i] = Respond(@, "Failed", CaughtResponse(EngineTrapMsg)) ]
    /\ running' = 0
    /\ rt' = NoRt
    /\ call' = NoCall
    /\ UNCHANGED << sw, boot, groups, msgs, fuel, nextInst, databases, storage, pending, bookmarkCache >>

\* the message handlers once chrome.storage.local has completed its oldest
\* call: the handler that awaited it sends { success: true }, the others are one
\* call nearer to theirs
AwaitResumes(s, op, key) ==
  [ handlers |->
      [ i \in DOMAIN s.handlers |->
          IF s.handlers[i].wait = 0 THEN s.handlers[i]
          ELSE IF s.handlers[i].wait = 1 /\ s.handlers[i].pc = "set"
            THEN [ s.handlers[i] EXCEPT !.wait = 0, !.pc = "done", !.resp = "ok" ]
          ELSE [ s.handlers[i] EXCEPT !.wait = @ - 1 ] ],
    boots |-> s.boots,
    names |-> s.names,
    sync |-> s.sync,
    last |-> IF op = "remove" THEN [ k \in (DOMAIN s.last) \ { key } |-> s.last[k] ]
             ELSE IF \E i \in DOMAIN s.handlers :
                  s.handlers[i].wait = 1 /\ s.handlers[i].pc = "set"
             THEN (key :> CHOOSE i \in DOMAIN s.handlers :
                            s.handlers[i].wait = 1 /\ s.handlers[i].pc = "set")
                  @@ s.last
             ELSE s.last ]

\* chrome.storage.local completes the oldest of its set and remove calls
StorageSetCompletes ==
  /\ pending # <<>>
  /\ storage' = IF Head(pending).op = "remove"
                THEN [ k \in (DOMAIN storage) \ { Head(pending).key } |-> storage[k] ]
                ELSE [ k \in (DOMAIN storage) \cup { Head(pending).key } |->
                         IF k = Head(pending).key THEN Head(pending).val ELSE storage[k] ]
  /\ pending' = Tail(pending)
  /\ sw' = AwaitResumes(sw, Head(pending).op, Head(pending).key)
  /\ UNCHANGED << boot, groups, msgs, inv, running, rt, call, fuel, nextInst, databases, bookmarkCache >>

\* a refresh that could complete in the middle of a guest's run
SyncBookmarkCacheAnytime ==
  \E t \in Trees :
    /\ bookmarkCache # [ set |-> TRUE, tree |-> t ]
    /\ bookmarkCache' = [ set |-> TRUE, tree |-> t ]
    /\ UNCHANGED << sw, boot, groups, msgs, inv, running, rt, call, fuel, nextInst, databases, storage, pending >>

\* syncBookmarkCache(), run by a chrome.bookmarks event while no guest runs:
\* getTree resolves with a tree; a rejection leaves the cache as it was
SyncBookmarkCache ==
  \E t \in Trees :
    /\ running = 0
    /\ bookmarkCache # [ set |-> TRUE, tree |-> t ]
    /\ bookmarkCache' = [ set |-> TRUE, tree |-> t ]
    /\ UNCHANGED << sw, boot, groups, msgs, inv, running, rt, call, fuel, nextInst, databases, storage, pending >>

(***************************************************************************)
(* The collection messages of the service worker.  A handler runs from the *)
(* message (initializeSQLite has completed, so its await resumes at once)  *)
(* to its first await on chrome.storage.local in one step; the storage     *)
(* completes its calls in the order they were made.                        *)
(***************************************************************************)
\* the collections the messages name: one of the user's, one of the system's
StoreNames == { DbNameText, PacketsName }

\* the files importFromBlob is given: an empty database, one with two rows
Blobs == { <<>>, (TableNameText :> << HelloRow, HelloRow >>) }

\* SQLiteManager.importFromBlob(name, arrayBuffer)
ImportFromBlob(dbs, name, blob) ==
  (name :> [ tabs |-> blob, changes |-> 0 ]) @@ dbs

\* a restoreCheckpoint that reports the checkpoint and keeps the open database
RestoreCheckpointKeeps(dbs, stored, name) ==
  [ dbs |-> dbs, restored |-> CheckpointKey(name) \in DOMAIN stored ]

\* a restoreCheckpoint that closes the collection when it finds no checkpoint
RestoreCheckpointCloses(dbs, stored, name) ==
  IF CheckpointKey(name) \notin DOMAIN stored
  THEN [ dbs |-> [ n \in (DOMAIN dbs) \ { name } |-> dbs[n] ], restored |-> FALSE ]
  ELSE [ dbs |-> (name :> [ tabs |-> stored[CheckpointKey(name)], changes |-> 0 ]) @@ dbs,
         restored |-> TRUE ]

\* SQLiteManager.restoreCheckpoint(name, storage) once storage.get has resolved
RestoreCheckpoint(dbs, stored, name) ==
  IF CheckpointKey(name) \notin DOMAIN stored
  THEN [ dbs |-> dbs, restored |-> FALSE ]
  ELSE [ dbs |-> (name :> [ tabs |-> stored[CheckpointKey(name)], changes |-> 0 ]) @@ dbs,
         restored |-> TRUE ]

\* SQLiteManager.applySchema(name, fullSQL) up to its saveCheckpoint:
\* [dbs, ok]; the tables the schema does not name are dropped, the ones it
\* names are dropped and created again
ApplySchema(dbs, name, fullSQL) ==
  IF name \notin DOMAIN dbs \/ fullSQL # SqlCreateText THEN [ dbs |-> dbs, ok |-> FALSE ]
  ELSE [ dbs |-> [ dbs EXCEPT ![name] =
                     [ tabs |-> (TableNameText :> <<>>)
                                @@ [ t \in (DOMAIN dbs[name].tabs) \cap { SeqName } |-> <<>> ],
                       changes |-> @.changes ] ],
         ok |-> TRUE ]

StoreFrame == UNCHANGED << boot, groups, msgs, inv, running, rt, call, fuel, nextInst, bookmarkCache >>

\* a handler that threw, or found no database: { success: false, error }
Refuses(action, name) ==
  /\ sw' = [ sw EXCEPT !.handlers = Append(@, Handler(action, name, "done", "fail")) ]
  /\ UNCHANGED << databases, storage, pending >>
  /\ StoreFrame

\* the rest of a handler whose work left the handles as dbs1: saveCheckpoint
\* exports the database and the handler awaits chrome.storage.local.set
Saves(action, name, dbs1) ==
  IF name \notin DOMAIN dbs1 THEN Refuses(action, name)
  ELSE /\ databases' = dbs1
       /\ pending' = SaveCheckpointIssue(dbs1, pending, name)
       /\ sw' = [ sw EXCEPT !.handlers =
                    Append(@, [ Handler(action, name, "set", "none") EXCEPT
                                  !.wait = Len(pending) + 1,
                                  !.snap = ExportDb(dbs1[name]) ]) ]
       /\ UNCHANGED storage
       /\ StoreFrame

\* case 'createCollection'
HandleCreateCollection ==
  \E name \in StoreNames :
    /\ Len(sw.handlers) < StoreMsgs
    /\ Saves("createCollection", name, InitDatabase(databases, name))

\* case 'importFromBlob'
HandleImportFromBlob ==
  \E name \in StoreNames, blob \in Blobs :
    /\ Len(sw.handlers) < StoreMsgs
    /\ Saves("importFromBlob", name, ImportFromBlob(databases, name, blob))

\* case 'saveCheckpoint'
HandleSaveCheckpoint ==
  \E name \in StoreNames :
    /\ Len(sw.handlers) < StoreMsgs
    /\ Saves("saveCheckpoint", name, databases)

\* case 'restoreCheckpoint', up to the await of storage.get
HandleRestoreCheckpoint ==
  \E name \in StoreNames :
    /\ Len(sw.handlers) < StoreMsgs
    /\ sw' = [ sw EXCEPT !.handlers =
                 Append(@, [ Handler("restoreCheckpoint", name, "get", "none") EXCEPT
                               !.wait = Len(pending) ]) ]
    /\ UNCHANGED << databases, storage, pending >>
    /\ StoreFrame

\* storage.get resolves: the rest of restoreCheckpoint, and the response
RestoreCompletes ==
  \E i \in DOMAIN sw.handlers :
    /\ sw.handlers[i].pc = "get"
    /\ sw.handlers[i].wait = 0
    /\ \E r \in { RestoreCheckpoint(databases, storage, sw.handlers[i].name) } :
         /\ databases' = r.dbs
         /\ sw' = [ sw EXCEPT !.handlers[i] =
                      [ @ EXCEPT !.pc = "done", !.resp = "ok", !.restored = r.restored ] ]
    /\ UNCHANGED << storage, pending >>
    /\ StoreFrame

\* a closeDatabase that leaves the handle in the map
CloseDatabaseKeeps(dbs, name) == dbs

\* SQLiteManager.closeDatabase(name)
CloseDatabase(dbs, name) == [ n \in (DOMAIN dbs) \ { name } |-> dbs[n] ]

\* case 'deleteCollection', up to the await of storage.remove
HandleDeleteCollection ==
  \E name \in StoreNames :
    /\ Len(sw.handlers) < StoreMsgs
    /\ databases' = CloseDatabase(databases, name)
    /\ pending' = Append(pending, [ op |-> "remove", key |-> CheckpointKey(name),
                                    val |-> <<>> ])
    /\ sw' = [ sw EXCEPT !.handlers =
                 Append(@, [ Handler("deleteCollection", name, "set", "none") EXCEPT
                               !.wait = Len(pending) + 1 ]) ]
    /\ UNCHANGED storage
    /\ StoreFrame

\* case 'executeSQL': the statement runs and the response is sent
HandleExecuteSQL ==
  \E name \in StoreNames, sql \in { SqlCreateText, SqlInsertText, SqlSelectText } :
    /\ Len(sw.handlers) < StoreMsgs
    /\ IF name \notin DOMAIN databases THEN Refuses("executeSQL", name)
       ELSE \E x \in { SqlExec(databases[name], sql) } :
              /\ sql = SqlInsertText /\ TableNameText \in DOMAIN databases[name].tabs
                   => Len(databases[name].tabs[TableNameText]) < MaxRows
              /\ databases' = [ databases EXCEPT ![name] = x.db ]
              /\ sw' = [ sw EXCEPT !.handlers =
                           Append(@, [ Handler("executeSQL", name, "done",
                                               IF x.err = NoThrow THEN "ok" ELSE "fail")
                                       EXCEPT !.wrote = (x.db.tabs # databases[name].tabs) ]) ]
              /\ UNCHANGED << storage, pending >>
              /\ StoreFrame

\* case 'setSchema'
HandleSetSchema ==
  \E name \in StoreNames, createSQL \in { SqlCreateText, SqlSelectText } :
    /\ Len(sw.handlers) < StoreMsgs
    /\ IF ApplySchema(databases, name, createSQL).ok
       THEN Saves("setSchema", name, ApplySchema(databases, name, createSQL).dbs)
       ELSE Refuses("setSchema", name)

\* case 'savePacket' / 'saveSchema'
HandleSaveEntry ==
  \E coll \in { PacketsName, SchemasName } :
    /\ Len(sw.handlers) < StoreMsgs
    /\ IF coll \notin DOMAIN databases THEN Refuses("saveEntry", coll)
       ELSE \E x \in { InsertEntry(databases[coll], coll, HelloText) } :
              /\ coll \in DOMAIN databases[coll].tabs
                   => Len(databases[coll].tabs[coll]) < MaxRows
              /\ IF x.err = NoThrow
                 THEN Saves("saveEntry", coll, [ databases EXCEPT ![coll] = x.db ])
                 ELSE Refuses("saveEntry", coll)

\* case 'deletePacket' / 'deleteSchema'
HandleDeleteEntry ==
  \E coll \in { PacketsName, SchemasName }, id \in 1..MaxRows :
    /\ Len(sw.handlers) < StoreMsgs
    /\ IF coll \notin DOMAIN databases THEN Refuses("deleteEntry", coll)
       ELSE \E x \in { DeleteEntry(databases[coll], coll, id) } :
              IF x.err = NoThrow
              THEN Saves("deleteEntry", coll, [ databases EXCEPT ![coll] = x.db ])
              ELSE Refuses("deleteEntry", coll)

\* the browser stops the idle worker and starts it again: the handles and the
\* handlers still awaiting are gone, storage.set calls not yet completed are
\* lost, and initializeSQLite runs over what storage holds
Restart ==
  /\ sw.boots < StoreBoots
  /\ databases' = InitializeSQLite(storage).dbs
  /\ storage' = InitializeSQLite(storage).storage
  /\ pending' = <<>>
  /\ sw' = [ handlers |->
               [ i \in DOMAIN sw.handlers |->
                   IF sw.handlers[i].pc = "done" THEN sw.handlers[i]
                   ELSE [ sw.handlers[i] EXCEPT !.pc = "lost", !.wait = 0 ] ],
             boots |-> sw.boots + 1,
             names |-> RestoredCollections(storage),
             sync |-> NoSync,
             last |-> [ k \in (DOMAIN sw.last)
                               \ { CheckpointKey(n) : n \in { PacketsName, SchemasName, WitsName } }
                        |-> sw.last[k] ] ]
  /\ StoreFrame

(***************************************************************************)
(* initializeSQLite and its callers: the eager call at the worker's start  *)
(* (call 1) and the call at the head of handleMessage (the other calls).   *)
(* A call runs to its next await in one step.                              *)
(***************************************************************************)
\* initializeSQLite has returned to call c: the eager call is over; a message's
\* handler goes on to its action, which runs against the global sqliteManager
Returns(b, c) ==
  IF c = 1 THEN [ b EXCEPT !.calls[c].pc = "done" ]
  ELSE [ b EXCEPT !.calls[c].pc = "act",
                  !.calls[c].ran = b.cur,
                  !.calls[c].early =
                    \/ b.cur \notin b.restored
                    \/ \E d \in DOMAIN b.calls :
                         b.calls[d].pc = "restore" /\ b.calls[d].mgr = b.cur ]

\* await sqliteManager.restoreAllCheckpoints(chrome.storage.local) is reached
BeginRestore(b, c) ==
  [ b EXCEPT !.calls[c].pc = "restore", !.calls[c].mgr = b.cur,
             !.order = Append(@, c) ]

\* an initializeSQLite that returns the manager without looking at any flag
EnterInitializeUnchecked(b, c) == Returns(b, c)

\* initializeSQLite() of service-worker.js up to its first await
EnterInitialize(b, c) ==
  IF b.initialized THEN Returns(b, c)
  ELSE IF ~b.SQL THEN [ b EXCEPT !.calls[c].pc = "load" ]
  ELSE BeginRestore(b, c)

\* the initializer of part_003 without its lock
EnterInitializeNoLock(b, c) ==
  IF b.initialized THEN Returns(b, c)
  ELSE IF ~b.SQL THEN [ b EXCEPT !.calls[c].pc = "load" ]
  ELSE BeginRestore(b, c)

\* initializeSQLite() of part_003 up to its first await: a call that finds an
\* initialization in flight gets its promise; otherwise the body starts and
\* its promise is stored in initializing
EnterInitializeLocked(b, c) ==
  IF b.initialized THEN Returns(b, c)
  ELSE IF b.initializing # 0 THEN [ b EXCEPT !.calls[c].pc = "wait" ]
  ELSE IF ~b.SQL THEN [ b EXCEPT !.initializing = c, !.calls[c].pc = "load" ]
  ELSE BeginRestore([ b EXCEPT !.initializing = c ], c)

\* call c is the oldest of the calls still at one of the awaits `pcs` on
\* chrome.storage.local, which completes its calls in the order they were made
OldestAt(b, c, pcs) ==
  \E k \in DOMAIN b.order :
    /\ b.order[k] = c
    /\ \A j \in 1..(k - 1) : b.calls[b.order[j]].pc \notin pcs

\* an await of call c's body rejects.  service-worker.js: a rejection of
\* initSqlJs leaves the function (the handler answers the error); one inside
\* the try block is logged and initialized is set all the same.  part_003: the
\* catch clears initializing and rethrows to the call and to those waiting on it
Rejects(b, c) ==
  IF b.locked
  THEN [ b EXCEPT !.initializing = 0, !.rejected = TRUE,
                  !.calls = [ d \in DOMAIN b.calls |->
                               IF d = c \/ b.calls[d].pc = "wait"
                               THEN [ b.calls[d] EXCEPT !.pc = "fail" ]
                               ELSE b.calls[d] ] ]
  ELSE IF b.calls[c].pc = "load"
    THEN [ b EXCEPT !.rejected = TRUE, !.calls[c].pc = "fail" ]
  ELSE Returns([ b EXCEPT !.rejected = TRUE, !.initialized = TRUE ], c)

\* the promises waiting on the body of call c resolve with it (part_003)
RECURSIVE Resolves(_, _, _)
Resolves(b, c, waiting) ==
  IF waiting = {} THEN Returns(b, c)
  ELSE Resolves(Returns(b, CHOOSE d \in waiting : \A e \in waiting : d <= e), c,
                waiting \ { CHOOSE d \in waiting : \A e \in waiting : d <= e })

\* initializeSQLite() is called: eagerly at the worker's start, then by messages
InitializeCalled ==
  \E c \in DOMAIN boot.calls :
    /\ boot.calls[c].pc = "idle"
    /\ \A d \in 1..(c - 1) : boot.calls[d].pc # "idle"
    /\ boot' = IF boot.locked THEN EnterInitializeLocked(boot, c)
               ELSE EnterInitialize(boot, c)
    /\ UNCHANGED << sw, groups, msgs, inv, running, rt, call, fuel, nextInst, databases, storage,
                    pending, bookmarkCache >>

\* await initSqlJs(...) resolves: SQL is set, a SQLiteManager is constructed and
\* assigned to sqliteManager, and restoreAllCheckpoints is called on it
LoadResolves ==
  \E c \in DOMAIN boot.calls :
    /\ boot.calls[c].pc = "load"
    /\ boot' = BeginRestore([ boot EXCEPT !.SQL = TRUE, !.made = @ + 1,
                                          !.cur = boot.made + 1 ], c)
    /\ UNCHANGED << sw, groups, msgs, inv, running, rt, call, fuel, nextInst, databases, storage,
                    pending, bookmarkCache >>

\* await restoreAllCheckpoints(...) resolves: the ensure*Collection calls follow,
\* on the manager sqliteManager refers to by then
RestoreAllResolves ==
  \E c \in DOMAIN boot.calls :
    /\ boot.calls[c].pc = "restore"
    /\ OldestAt(boot, c, { "restore" })
    /\ boot' = [ boot EXCEPT !.restored = @ \cup { boot.calls[c].mgr },
                             !.calls[c].pc = "ensure" ]
    /\ UNCHANGED << sw, groups, msgs, inv, running, rt, call, fuel, nextInst, databases, storage,
                    pending, bookmarkCache >>

\* the last await of the body resolves: initialized = true, and the function
\* returns to its caller (and, in part_003, to the calls waiting on the promise)
EnsureResolves ==
  \E c \in DOMAIN boot.calls :
    /\ boot.calls[c].pc = "ensure"
    /\ OldestAt(boot, c, { "restore", "ensure" })
    /\ boot' = Resolves([ boot EXCEPT !.initialized = TRUE ], c,
                        IF boot.locked
                        THEN { d \in DOMAIN boot.calls : boot.calls[d].pc = "wait" }
                        ELSE {})
    /\ UNCHANGED << sw, groups, msgs, inv, running, rt, call, fuel, nextInst, databases, storage,
                    pending, bookmarkCache >>

\* an await of the body rejects (initSqlJs, or a chrome.storage.local call)
AwaitRejects ==
  \E c \in DOMAIN boot.calls :
    /\ boot.calls[c].pc \in { "load", "restore", "ensure" }
    /\ boot.calls[c].pc # "load" => OldestAt(boot, c, { "restore", "ensure" })
    /\ boot' = Rejects(boot, c)
    /\ UNCHANGED << sw, groups, msgs, inv, running, rt, call, fuel, nextInst, databases, storage,
                    pending, bookmarkCache >>

(***************************************************************************)
(* Specifications.  Spec: the lifecycle of invocations, whose guests log,  *)
(* write, exit, probe bookmarks.create, return and trap.  SpecCap: guests  *)
(* that call the sqlite and bookmarks capabilities, with the storage and   *)
(* the bookmark cache changing around them.                                *)
(***************************************************************************)
Next ==
  \/ Receive
  \/ InstantiateFails
  \/ Enter
  \/ NoEntryPoint
  \/ GuestLogs
  \/ GuestWrites
  \/ GuestExits
  \/ GuestCreates
  \/ EntryReturns
  \/ GuestTraps

Spec == Init /\ [][Next]_vars

NextCap ==
  \/ ReceiveCap
  \/ Enter
  \/ GuestExecutes
  \/ GuestQueries
  \/ GuestGetsTree
  \/ GuestCreates
  \/ GuestWrites
  \/ EntryReturns
  \/ StorageSetCompletes
  \/ SyncBookmarkCache

SpecCap == InitCap /\ [][NextCap]_vars

\* SpecSql: invocations of the verification guest, which only runs statements
NextSql ==
  \/ ReceiveSql
  \/ Enter
  \/ GuestExecutes
  \/ GuestQueries
  \/ EntryReturns

SpecSql == InitSql /\ [][NextSql]_vars

\* SpecPayload: the ways a module reaches the handler, up to the end of its
\* run; the guests make no host calls
NextPayload ==
  \/ ReceivePayload
  \/ InstantiateFails
  \/ Enter
  \/ NoEntryPoint
  \/ EntryReturns
  \/ GuestTraps

SpecPayload == InitCap /\ [][NextPayload]_vars

\* SpecStrings: strings written by the host and read back by it
NextStrings ==
  \/ ReceiveCap
  \/ Enter
  \/ GuestEchoes
  \/ GuestGetsList
  \/ EntryReturns

SpecStrings == InitCap /\ [][NextStrings]_vars

\* SpecStore: collection messages, storage completions and a restart
InitStore ==
  /\ \E stored \in StoredCheckpoints : InitOver(stored)
  /\ inv = <<>>
  /\ fuel = 0
  /\ boot = NoBoot
  /\ groups = NoGroups
  /\ msgs = <<>>

NextStore ==
  \/ HandleCreateCollection
  \/ HandleImportFromBlob
  \/ HandleSaveCheckpoint
  \/ HandleRestoreCheckpoint
  \/ RestoreCompletes
  \/ HandleDeleteCollection
  \/ HandleExecuteSQL
  \/ HandleSetSchema
  \/ HandleSaveEntry
  \/ HandleDeleteEntry
  \/ StorageSetCompletes
  \/ Restart

SpecStore == InitStore /\ [][NextStore]_vars

\* SpecRestore: the worker starts over any set of stored checkpoints, each
\* loadable or not
InitRestore ==
  /\ \E S \in SUBSET { StoredNames[i] : i \in DOMAIN StoredNames } :
       \E C \in SUBSET S :
         storage = [ k \in { CheckpointKey(n) : n \in S } |->
                       IF k \in { CheckpointKey(n) : n \in C } THEN CorruptBlob
                       ELSE IF k = CheckpointKey(DbNameText)
                         THEN (TableNameText :> << HelloRow >>)
                       ELSE ((CHOOSE n \in S : CheckpointKey(n) = k) :> <<>>) ]
  /\ databases = <<>>
  /\ pending = <<>>
  /\ sw = NoSw
  /\ boot = NoBoot
  /\ groups = NoGroups
  /\ msgs = <<>>
  /\ inv = <<>>
  /\ running = 0
  /\ rt = NoRt
  /\ call = NoCall
  /\ fuel = 0
  /\ nextInst = 0
  /\ bookmarkCache = [ set |-> FALSE, tree |-> <<>> ]

NextRestore == Restart

SpecRestore == InitRestore /\ [][NextRestore]_vars

\* SpecInit: the calls of service-worker.js's initializeSQLite;
\* SpecLocked: those of part_003's, which keeps the promise of its body
InitBoot(locked) ==
  /\ boot = [ NoBoot EXCEPT !.locked = locked,
                            !.calls = [ c \in 1..InitCalls |-> IdleCall ] ]
  /\ groups = NoGroups
  /\ msgs = <<>>
  /\ inv = <<>>
  /\ running = 0
  /\ rt = NoRt
  /\ call = NoCall
  /\ fuel = 0
  /\ nextInst = 0
  /\ databases = <<>>
  /\ storage = <<>>
  /\ pending = <<>>
  /\ bookmarkCache = [ set |-> FALSE, tree |-> <<>> ]
  /\ sw = NoSw

NextInit ==
  \/ InitializeCalled
  \/ LoadResolves
  \/ RestoreAllResolves
  \/ EnsureResolves
  \/ AwaitRejects

SpecInit == InitBoot(FALSE) /\ [][NextInit]_vars

SpecLocked == InitBoot(TRUE) /\ [][NextInit]_vars

(***************************************************************************)
(* The refreshes of the bookmark cache: a chrome.bookmarks event calls     *)
(* syncBookmarkCache, whose getTree resolves or rejects later, between the *)
(* runs of the guests.                                                     *)
(***************************************************************************)
SyncFailedClears(cache) == [ set |-> FALSE, tree |-> <<>> ]

\* catch (e) { console.error(...) }: the assignment did not happen
SyncFailed(cache) == cache

\* bookmarkCache = await chrome.bookmarks.getTree()
SyncSucceeded(cache, tree) == [ set |-> TRUE, tree |-> tree ]

CacheFrame ==
  UNCHANGED << boot, groups, msgs, inv, running, rt, call, fuel, nextInst, databases, storage,
               pending >>

\* a chrome.bookmarks event: syncBookmarkCache() runs up to its await
BookmarksChanged ==
  /\ running = 0
  /\ sw.sync.calls < CacheSyncs
  /\ sw' = [ sw EXCEPT !.sync.calls = @ + 1, !.sync.flying = @ + 1 ]
  /\ bookmarkCache' = bookmarkCache
  /\ CacheFrame

GetTreeResolves ==
  \E t \in Trees :
    /\ running = 0
    /\ sw.sync.flying > 0
    /\ sw' = [ sw EXCEPT !.sync.flying = @ - 1, !.sync.lastFailed = FALSE ]
    /\ bookmarkCache' = SyncSucceeded(bookmarkCache, t)
    /\ CacheFrame

GetTreeRejects ==
  /\ running = 0
  /\ sw.sync.flying > 0
  /\ sw' = [ sw EXCEPT !.sync.flying = @ - 1, !.sync.failed = @ + 1, !.sync.lastFailed = TRUE ]
  /\ bookmarkCache' = SyncFailed(bookmarkCache)
  /\ CacheFrame

\* SpecCache: guests that read the bookmark tree between refreshes of the cache
InitCache ==
  /\ InitOver(<<>>)
  /\ inv = [ i \in 1..CacheInv |-> IdleInv ]
  /\ fuel = CacheCalls
  /\ boot = NoBoot
  /\ groups = NoGroups
  /\ msgs = <<>>

NextCache ==
  \/ ReceiveCap
  \/ Enter
  \/ GuestGetsTree
  \/ EntryReturns
  \/ BookmarksChanged
  \/ GetTreeResolves
  \/ GetTreeRejects

SpecCache == InitCache /\ [][NextCache]_vars

(***************************************************************************)
(* The activeGroups map of chrome.storage.local.  playPacket and           *)
(* openTabInGroup, having created tab group g for packet p, read the map,  *)
(* add g -> p and write it back; the tabGroups.onRemoved listener reads    *)
(* it, deletes the entry of the removed group and writes it back.  Each    *)
(* handler runs from one await to the next in one step, and the storage    *)
(* area completes its calls in the order they were made.                   *)
(***************************************************************************)
WriteBackOwnEntry(kind, read, g, p) ==
  IF kind = "removed" THEN <<>> ELSE (g :> p)

\* activeGroups[g] = p (playPacket, openTabInGroup); delete activeGroups[g]
WriteBack(kind, read, g, p) ==
  IF kind = "removed" THEN [ k \in (DOMAIN read) \ { g } |-> read[k] ]
  ELSE (g :> p) @@ read

GroupHandler(kind, g, p) ==
  [ kind |-> kind, group |-> g, packet |-> p, pc |-> "get", read |-> <<>> ]

GroupsFrame ==
  UNCHANGED << sw, boot, msgs, inv, running, rt, call, fuel, nextInst, databases, storage,
               pending, bookmarkCache >>

\* the handler calls chrome.storage.local.get('activeGroups')
GetIssued(gs, h) ==
  [ gs EXCEPT !.procs = Append(@, h),
              !.queue = Append(@, [ proc |-> Len(gs.procs) + 1, op |-> "get", val |-> <<>> ]) ]

\* playPacket (375-381): chrome.tabs.group has made a new group for the packet
PlayPacketRecords ==
  \E p \in PacketIds :
    /\ Len(groups.procs) < GroupProcs
    /\ groups' = GetIssued(groups, GroupHandler("playPacket", Len(groups.procs) + 1, p))
    /\ GroupsFrame

\* openTabInGroup (608-626): the same for a tab opened outside any group
OpenTabInGroupRecords ==
  \E p \in PacketIds :
    /\ Len(groups.procs) < GroupProcs
    /\ groups' = GetIssued(groups, GroupHandler("openTabInGroup", Len(groups.procs) + 1, p))
    /\ GroupsFrame

\* tabGroups.onRemoved (897-905) for a group made earlier and not yet removed
GroupRemoved ==
  \E i \in DOMAIN groups.procs :
    /\ Len(groups.procs) < GroupProcs
    /\ groups.procs[i].kind # "removed"
    /\ \A j \in DOMAIN groups.procs :
         ~(groups.procs[j].kind = "removed" /\ groups.procs[j].group = groups.procs[i].group)
    /\ groups' = GetIssued(groups, GroupHandler("removed", groups.procs[i].group, 0))
    /\ GroupsFrame

\* the oldest call is a get: its handler resumes with the stored map and,
\* unless it is the listener and finds no entry of its group, calls set
GetCompletes ==
  /\ groups.queue # <<>>
  /\ Head(groups.queue).op = "get"
  /\ \E i \in { Head(groups.queue).proc } :
       \E h \in { groups.procs[i] } :
         groups' =
           IF h.kind = "removed" /\ h.group \notin DOMAIN groups.stored
           THEN [ groups EXCEPT !.queue = Tail(@),
                                !.procs[i].read = groups.stored,
                                !.procs[i].pc = "done" ]
           ELSE [ groups EXCEPT
                    !.queue = Append(Tail(@),
                                [ proc |-> i, op |-> "set",
                                  val |-> WriteBack(h.kind, groups.stored, h.group, h.packet) ]),
                    !.procs[i].read = groups.stored,
                    !.procs[i].pc = "set" ]
  /\ GroupsFrame

\* the oldest call is a set: the map it carries replaces the stored one
SetCompletes ==
  /\ groups.queue # <<>>
  /\ Head(groups.queue).op = "set"
  /\ groups' = [ groups EXCEPT !.queue = Tail(@),
                               !.stored = Head(groups.queue).val,
                               !.procs[Head(groups.queue).proc].pc = "done" ]
  /\ GroupsFrame

\* SpecGroups: handlers of the activeGroups map, interleaved at their awaits
InitGroups == InitBoot(TRUE)

NextGroups ==
  \/ PlayPacketRecords
  \/ OpenTabInGroupRecords
  \/ GroupRemoved
  \/ GetCompletes
  \/ SetCompletes

SpecGroups == InitGroups /\ [][NextGroups]_vars

(***************************************************************************)
(* handleMessage of the sidebar build (part_003): the paths of a message   *)
(* through the outer try, the initialization, the switch and each case.    *)
(***************************************************************************)
\* A case is a list of statements, inside its own try/catch or not.
\*   "step":   statements and awaits that complete or throw;
\*   "leave":  if (...) { sendResponse({ success: true, ... }); break | return; }
\*   "refuse": if (...) { sendResponse({ success: false, ... }); break; }
\*   "send":   sendResponse({ success: true, ... })
Case(try, body) == [ try |-> try, body |-> body ]

Cases ==
  [ listCollections    |-> Case(FALSE, << "step", "send" >>),
    createCollection   |-> Case(FALSE, << "step", "step", "send" >>),
    importFromBlob     |-> Case(FALSE, << "step", "step", "send" >>),
    exportToBlob       |-> Case(FALSE, << "step", "step", "send" >>),
    saveCheckpoint     |-> Case(FALSE, << "step", "send" >>),
    restoreCheckpoint  |-> Case(FALSE, << "step", "send" >>),
    deleteCollection   |-> Case(FALSE, << "step", "step", "send" >>),
    executeSQL         |-> Case(FALSE, << "refuse", "step", "send" >>),
    getSchema          |-> Case(FALSE, << "step", "send" >>),
    getEntries         |-> Case(FALSE, << "step", "send" >>),
    getEntry           |-> Case(TRUE, << "step", "send" >>),
    setSchema          |-> Case(FALSE, << "step", "send" >>),
    playPacket         |-> Case(TRUE, << "step", "step", "leave", "leave", "step", "step",
                                         "leave", "step", "step", "step", "send" >>),
    getCurrentTab      |-> Case(FALSE, << "step", "refuse", "send" >>),
    savePacket         |-> Case(TRUE, << "step", "step", "step", "send" >>),
    deletePacket       |-> Case(TRUE, << "step", "step", "step", "send" >>),
    saveSchema         |-> Case(TRUE, << "step", "step", "step", "send" >>),
    deleteSchema       |-> Case(TRUE, << "step", "step", "step", "send" >>),
    listSchemas        |-> Case(TRUE, << "step", "step", "send" >>),
    getPacketByGroupId |-> Case(TRUE, << "step", "leave", "step", "leave", "step", "send" >>),
    saveMediaBlob      |-> Case(TRUE, << "step", "step", "send" >>),
    getMediaBlob       |-> Case(TRUE, << "step", "step", "send" >>),
    getActivePacket    |-> Case(TRUE, << "step", "leave", "step", "leave", "step", "leave",
                                         "step", "send" >>),
    openTabInGroup     |-> Case(TRUE, << "step", "step", "step", "step", "send" >>),
    runWasmPacketItem  |-> Case(TRUE, << "step", "step", "refuse", "step", "send" >>) ]

\* an action no case of the switch names
UnknownAction == "unknown"

RequestActions == DOMAIN Cases \cup { UnknownAction }

\* the message of whatever was thrown
ErrorMessage == "error.message"

NewMessage(action) ==
  [ action |-> action, pc |-> "init", at |-> 0, resps |-> <<>>, via |-> "none" ]

\* sendResponse(r), reached through `via`
SendResponse(m, r, via) == [ m EXCEPT !.resps = Append(@, r), !.via = via ]

\* break, return, and the end of handleMessage
Break(m) == [ m EXCEPT !.pc = "done" ]

OuterCatchSilent(m) == Break(m)

\* catch (error) { sendResponse({ success: false, error: error.message }) }
OuterCatch(m) ==
  Break(SendResponse(m, [ success |-> FALSE, error |-> ErrorMessage ], "outer"))

\* the catch of a case's own try
InnerCatch(m) ==
  Break(SendResponse(m, [ success |-> FALSE, error |-> ErrorMessage ], "inner"))

Throws(m) == IF Cases[m.action].try THEN InnerCatch(m) ELSE OuterCatch(m)

\* the next statement of the case, or its closing break
Advance(m) ==
  IF m.at = Len(Cases[m.action].body) THEN Break(m) ELSE [ m EXCEPT !.at = @ + 1 ]

\* switch (request.action)
Dispatch(m) ==
  IF m.action \in DOMAIN Cases
    THEN [ m EXCEPT !.pc = "case", !.at = 1 ]
    ELSE Break(SendResponse(m, [ success |-> FALSE, error |-> "Unknown action" ], "default"))

Statement(m) == Cases[m.action].body[m.at]

MsgFrame ==
  UNCHANGED << sw, boot, groups, inv, running, rt, call, fuel, nextInst, databases, storage,
               pending, bookmarkCache >>

MessageDelivered ==
  \E action \in RequestActions :
    /\ Len(msgs) < DispatchMsgs
    /\ msgs' = Append(msgs, NewMessage(action))
    /\ MsgFrame

\* await initializeSQLite() resolves
InitializedDispatches ==
  \E i \in DOMAIN msgs :
    /\ msgs[i].pc = "init"
    /\ msgs' = [ msgs EXCEPT ![i] = Dispatch(@) ]
    /\ MsgFrame

\* await initializeSQLite() rejects
InitializationFails ==
  \E i \in DOMAIN msgs :
    /\ msgs[i].pc = "init"
    /\ msgs' = [ msgs EXCEPT ![i] = OuterCatch(@) ]
    /\ MsgFrame

StatementCompletes ==
  \E i \in DOMAIN msgs :
    /\ msgs[i].pc = "case"
    /\ Statement(msgs[i]) = "step"
    /\ msgs' = [ msgs EXCEPT ![i] = Advance(@) ]
    /\ MsgFrame

StatementThrows ==
  \E i \in DOMAIN msgs :
    /\ msgs[i].pc = "case"
    /\ Statement(msgs[i]) = "step"
    /\ msgs' = [ msgs EXCEPT ![i] = Throws(@) ]
    /\ MsgFrame

LeavesEarly ==
  \E i \in DOMAIN msgs :
    /\ msgs[i].pc = "case"
    /\ Statement(msgs[i]) \in { "leave", "refuse" }
    /\ msgs' = [ msgs EXCEPT ![i] =
         Break(SendResponse(@, [ success |-> Statement(@) = "leave", error |-> "" ], "leave")) ]
    /\ MsgFrame

StaysInCase ==
  \E i \in DOMAIN msgs :
    /\ msgs[i].pc = "case"
    /\ Statement(msgs[i]) \in { "leave", "refuse" }
    /\ msgs' = [ msgs EXCEPT ![i] = Advance(@) ]
    /\ MsgFrame

Responds ==
  \E i \in DOMAIN msgs :
    /\ msgs[i].pc = "case"
    /\ Statement(msgs[i]) = "send"
    /\ msgs' = [ msgs EXCEPT ![i] = Advance(SendResponse(@, [ success |-> TRUE, error |-> "" ], "case")) ]
    /\ MsgFrame

InitMsgs == InitBoot(TRUE)

NextMsgs ==
  \/ MessageDelivered
  \/ InitializedDispatches
  \/ InitializationFails
  \/ StatementCompletes
  \/ StatementThrows
  \/ LeavesEarly
  \/ StaysInCase
  \/ Responds

SpecMsgs == InitMsgs /\ [][NextMsgs]_vars

(***************************************************************************)
(* Properties of the execution host.                                       *)
(***************************************************************************)
\* the handler has called sendResponse
Terminal(r) == r.phase \in { "Completed", "Failed" }

\* the logs a caller finds in a response
ResponseLogs(resp) == IF resp.hasLogs THEN resp.logs ELSE <<>>

\* C1: every invocation that ends in failure responds with success false and
\* with logs holding, in order, every message its guest logged through env.log
\* or fd_write before the failure.
FailureCarriesLogs ==
  \A i \in DOMAIN inv :
    inv[i].phase = "Failed" =>
      /\ Len(inv[i].resps) = 1
      /\ ~inv[i].resps[1].success
      /\ ResponseLogs(inv[i].resps[1]) = inv[i].sent

\* C2: an execute or query call whose (pointer, length) argument ends past the
\* current memory returns a result with discriminant 1, and the guest that
\* made the call keeps running.
OutOfRangeArgsReturnErr ==
  (call.op \in { "execute", "query" } /\ call.oob) =>
    /\ ~call.threw
    /\ call.disc = 1
    /\ running # 0

\* C3: a guest that does not export the allocator fails before its entry
\* point is invoked, with an error message that names the missing export.
MissingAllocatorFailsEarly ==
  \A i \in DOMAIN inv :
    (inv[i].phase # "Idle" /\ inv[i].guest.data /\ inv[i].guest.link
       /\ ~inv[i].guest.realloc) =>
      /\ inv[i].entered = 0
      /\ Terminal(inv[i]) =>
           /\ inv[i].phase = "Failed"
           /\ IsInfix(NameCabiRealloc, inv[i].resps[1].error)

\* the checkpoint write issued last for database `name` (pending if it has
\* not completed, stored if it has) holds the database as it is now
LatestCheckpointIsCurrent(name) ==
  IF \E k \in DOMAIN pending : pending[k].key = CheckpointKey(name)
  THEN pending[CHOOSE k \in DOMAIN pending :
                 /\ pending[k].key = CheckpointKey(name)
                 /\ \A j \in DOMAIN pending :
                      pending[j].key = CheckpointKey(name) => j <= k].val
       = ExportDb(databases[name])
  ELSE /\ CheckpointKey(name) \in DOMAIN storage
       /\ storage[CheckpointKey(name)] = ExportDb(databases[name])

\* C4 (as the code has it): when a successful execute returns to the guest, a
\* checkpoint write holding the database with the statement applied has been
\* issued to storage; it may still be pending, and the writes of successive
\* execute calls complete in call order, so the last one issued is the one
\* that stays.
CheckpointIssuedAtReturn ==
  (call.op = "execute" /\ call.disc = 0) => LatestCheckpointIsCurrent(DbNameText)

\* C4 (as stated): when a successful execute returns to the guest, storage
\* already holds a checkpoint of the database with the statement applied.
CheckpointDurableAtReturn ==
  (call.op = "execute" /\ call.disc = 0) =>
    /\ CheckpointKey(DbNameText) \in DOMAIN storage
    /\ storage[CheckpointKey(DbNameText)] = ExportDb(databases[DbNameText])

\* two successful execute calls have returned and both their checkpoint
\* writes, which differ, are still pending
TwoCheckpointsPending ==
  /\ call.op = "execute"
  /\ call.disc = 0
  /\ Len(pending) = 2
  /\ pending[1].key = pending[2].key
  /\ pending[1].val # pending[2].val

\* the stores of a capability call
IsStore(e) == e.k \in { "write", "disc", "out" }

\* C5: every store a host routine makes into guest memory goes through a
\* view acquired after the latest allocator call.
StoresUseFreshView ==
  \A k \in DOMAIN call.ev : IsStore(call.ev[k]) => call.ev[k].fresh

\* a call has allocated, the allocation grew the memory, and the call stored
\* bytes afterwards and returned
StoredAfterGrowth ==
  /\ running # 0
  /\ ~call.threw
  /\ rt.gen > 0
  /\ \E j, k \in DOMAIN call.ev :
       j < k /\ call.ev[j].k = "alloc" /\ call.ev[j].at + call.ev[j].n > InitialPages * PageSize
       /\ IsStore(call.ev[k])

\* C6: every {pointer, length} header written with length > 0 points to an
\* allocation the guest allocator issued and the bytes it announces lie
\* inside that allocation, and every result byte is stored inside an
\* allocation.
HeadersAddressAllocations ==
  \A k \in DOMAIN call.ev :
    /\ (call.ev[k].k = "ref" /\ call.ev[k].cnt > 0) =>
         \E j \in 1..(k - 1) :
           /\ call.ev[j].k = "alloc"
           /\ call.ev[j].at = call.ev[k].at
           /\ call.ev[k].n <= call.ev[j].n
    /\ call.ev[k].k \in { "write", "disc" } =>
         \E j \in 1..(k - 1) :
           /\ call.ev[j].k = "alloc"
           /\ call.ev[j].at <= call.ev[k].at
           /\ call.ev[k].at + call.ev[k].n <= call.ev[j].at + call.ev[j].n

\* the option discriminant found in memory at offset off of the node at ptr
OptionDisc(ptr, off) == FromLE32(LoadBytes(rt, ptr + off, 4))

\* C7: every discriminant the host writes is 0 or 1: the value of each
\* discriminant store, the discriminant of each returned result, and what
\* memory holds at offsets 8, 28 and 40 of each node encoded by a call that
\* returned.
DiscriminantsAreZeroOrOne ==
  /\ \A k \in DOMAIN call.ev :
       call.ev[k].k = "disc" => FromLE32(call.ev[k].bytes) \in { 0, 1 }
  /\ (call.op \in ResultOps /\ ~call.threw) => call.disc \in { 0, 1 }
  /\ (running # 0 /\ ~call.threw) =>
       \A k \in DOMAIN call.ev :
         call.ev[k].k = "node" =>
           \A off \in { 8, 28, 40 } : OptionDisc(call.ev[k].at, off) \in { 0, 1 }

\* get-tree has returned Ok to a guest whose heap was dirty, with a node that
\* has a url and a node that has none
TreeEncodedOnDirtyHeap ==
  /\ running # 0
  /\ call.op = "get-tree"
  /\ call.disc = 0
  /\ rt.dirty = DirtyByte
  /\ \E j, k \in DOMAIN call.ev :
       /\ call.ev[j].k = "node" /\ OptionDisc(call.ev[j].at, 28) = 1
       /\ call.ev[k].k = "node" /\ OptionDisc(call.ev[k].at, 28) = 0

\* the steps of an invocation; a message without data fails as it arrives
PhaseSteps ==
  { << "Idle", "Instantiating" >>, << "Idle", "Failed" >>,
    << "Instantiating", "Running" >>, << "Instantiating", "Failed" >>,
    << "Running", "Completed" >>, << "Running", "Failed" >> }

\* C8: an invocation only moves Instantiating -> Running -> Completed|Failed:
\* it responds exactly once, when it reaches its terminal state, and nothing
\* of it changes afterwards; its entry point is invoked at most once, it is
\* instantiated at most once, and no two invocations have the same instance.
OneWayLifecycle ==
  /\ [](\A i \in DOMAIN inv :
          /\ inv[i].entered <= 1
          /\ inv[i].insts <= 1
          /\ Len(inv[i].resps) = (IF Terminal(inv[i]) THEN 1 ELSE 0)
          /\ (running = i) = (inv[i].phase = "Running")
          /\ \A j \in DOMAIN inv :
               (j # i /\ inv[i].inst > 0) => inv[j].inst # inv[i].inst)
  /\ [][\A i \in DOMAIN inv :
          /\ inv'[i].phase # inv[i].phase =>
               << inv[i].phase, inv'[i].phase >> \in PhaseSteps
          /\ Terminal(inv[i]) => inv'[i] = inv[i]]_vars

\* one invocation has completed and another has failed after its entry point
\* was invoked
CompletedAndFailed ==
  \E i, j \in DOMAIN inv :
    /\ inv[i].phase = "Completed"
    /\ inv[j].phase = "Failed"
    /\ inv[j].entered = 1
    /\ inv[i].inst # inv[j].inst

\* C9: when the entry point returns r, the response is success with result r
\* and with logs equal to the strings the guest passed to env.log and
\* fd_write (one per iovec), in call order.
SuccessCarriesAllLogs ==
  \A i \in DOMAIN inv :
    inv[i].phase = "Completed" =>
      /\ Len(inv[i].resps) = 1
      /\ inv[i].resps[1] = Success(inv[i].returned, inv[i].sent)

\* an invocation has completed after an env.log call and an fd_write call of
\* two iovecs
CompletedWithThreeLogs ==
  \E i \in DOMAIN inv :
    /\ inv[i].phase = "Completed"
    /\ inv[i].returned = 1
    /\ inv[i].sent = << DbNameText, SuccessText, DbNameText >>

\* C10: when instantiation raises a link error the invocation fails without
\* an instance and without any guest function having been called, and the
\* error of the response contains the engine's description of the import.
LinkErrorFailsBeforeGuest ==
  \A i \in DOMAIN inv :
    (inv[i].phase \notin { "Idle", "Instantiating" } /\ inv[i].guest.data
       /\ ~inv[i].guest.link) =>
      /\ inv[i].phase = "Failed"
      /\ inv[i].entered = 0
      /\ inv[i].insts = 0
      /\ Len(inv[i].resps) = 1
      /\ ~inv[i].resps[1].success
      /\ IsInfix(EngineLinkMsg, inv[i].resps[1].error)

\* an invocation whose module does not link has failed
LinkErrorReported ==
  \E i \in DOMAIN inv :
    /\ inv[i].guest.data
    /\ ~inv[i].guest.link
    /\ inv[i].phase = "Failed"

\* C11 (as stated): for a guest without the allocator export, every execute,
\* query, get-tree and create call fails with an error that names the missing
\* export, and the host has stored nothing in guest memory.
MissingAllocatorFailsCall ==
  (call.op \in ResultOps /\ ~inv[call.by].guest.realloc) =>
    /\ call.threw
    /\ inv[call.by].phase = "Failed"
    /\ IsInfix(NameCabiRealloc, inv[call.by].resps[1].error)
    /\ \A k \in DOMAIN call.ev : ~IsStore(call.ev[k])

\* C11 (as the code has it): the same for every such call whose string
\* arguments lie inside the memory; a call with an argument out of range has
\* already failed on reading it.
MissingAllocatorFailsInRangeCall ==
  (call.op \in ResultOps /\ ~inv[call.by].guest.realloc) =>
    /\ call.threw
    /\ inv[call.by].phase = "Failed"
    /\ \A k \in DOMAIN call.ev : ~IsStore(call.ev[k])
    /\ ~call.oob => inv[call.by].resps[1].error = MsgMissingRealloc

\* a guest without the allocator export has run a statement the engine
\* accepted and its call failed
AllocatorMissedAfterStatement ==
  /\ call.op = "execute"
  /\ ~call.oob
  /\ call.threw
  /\ ~inv[call.by].guest.realloc
  /\ TableNameText \in DOMAIN databases[DbNameText].tabs

\* C12: when the engine rejects the statement of an execute or query call
\* with message m (the guest exporting the allocator), the call returns to the
\* running guest a result whose discriminant is 1 and whose header at offset 4
\* addresses bytes that decode to m; the call stored the message bytes, the
\* discriminant and the header and nothing else.
RejectedStatementReturnsErr ==
  (call.op \in { "execute", "query" } /\ call.sqlerr # NoThrow
     /\ inv[call.by].guest.realloc) =>
    /\ ~call.threw
    /\ running = call.by
    /\ call.disc = 1
    /\ Utf8Decode(LoadBytes(rt, FromLE32(LoadBytes(rt, call.ret + 4, 4)),
                             FromLE32(LoadBytes(rt, call.ret + 8, 4)))) = call.sqlerr
    /\ \A k \in DOMAIN call.ev :
         IsStore(call.ev[k]) =>
           \/ call.ev[k].at \in { call.ret, call.ret + 4, call.ret + 8 } /\ call.ev[k].n = 4
           \/ /\ call.ev[k].at = FromLE32(LoadBytes(rt, call.ret + 4, 4))
              /\ call.ev[k].bytes = Utf8Encode(call.sqlerr)

\* a query of a table that does not exist has returned to its guest, as the
\* guest's second call
QueryOfMissingTableReturned ==
  /\ running # 0
  /\ call.op = "query"
  /\ call.sqlerr = EngineNoTableMsg
  /\ call.disc = 1
  /\ fuel = 0

\* C13: get-tree returns Err to a guest (one that exports the allocator)
\* exactly when the cache has never been filled by a refresh, and a filled
\* cache is never emptied again; with a filled cache it returns Ok with a list
\* header whose length is the number of root nodes cached, 0 for an empty tree.
GetTreeErrIffNeverSynced ==
  /\ []((call.op = "get-tree" /\ running = call.by /\ running # 0
           /\ inv[call.by].guest.realloc) =>
          /\ ~call.threw
          /\ call.disc = (IF bookmarkCache.set THEN 0 ELSE 1)
          /\ bookmarkCache.set =>
               FromLE32(LoadBytes(rt, call.ret + 8, 4)) = Len(bookmarkCache.tree)
          /\ ~bookmarkCache.set =>
               Utf8Decode(LoadBytes(rt, FromLE32(LoadBytes(rt, call.ret + 4, 4)),
                                    FromLE32(LoadBytes(rt, call.ret + 8, 4))))
               = MsgCacheNotReady)
  /\ [][bookmarkCache.set => bookmarkCache'.set]_vars

\* get-tree has returned Ok with an empty list after a refresh that found no
\* bookmarks
EmptyTreeReturnedOk ==
  /\ running # 0
  /\ call.op = "get-tree"
  /\ call.disc = 0
  /\ bookmarkCache = [ set |-> TRUE, tree |-> <<>> ]
  /\ FromLE32(LoadBytes(rt, call.ret + 8, 4)) = 0

\* C14: create, called through either namespace with any title and url, in
\* range or not, returns to a guest that exports the allocator a result with
\* discriminant 1 and the message "Async 'create' requires JSPI."; the call
\* changes no database handle, issues no checkpoint and leaves the bookmark
\* cache as it was.
CreateAlwaysErr ==
  /\ []((call.op \in { "create", "create-alias" } /\ inv[call.by].guest.realloc) =>
          /\ ~call.threw
          /\ call.disc = 1
          /\ running = call.by
          /\ FromLE32(LoadBytes(rt, call.ret + 8, 4)) > 0
          /\ Utf8Decode(LoadBytes(rt, FromLE32(LoadBytes(rt, call.ret + 4, 4)),
                                  FromLE32(LoadBytes(rt, call.ret + 8, 4))))
             = MsgCreateUnavailable)
  /\ [][(call'.op \in { "create", "create-alias" } /\ fuel' < fuel) =>
          /\ databases' = databases
          /\ pending' = pending
          /\ bookmarkCache' = bookmarkCache]_vars

\* create has returned Err to a guest that called it through the short
\* namespace with a title that ends past the memory
AliasCreateRefused ==
  /\ running # 0
  /\ call.op = "create-alias"
  /\ call.oob
  /\ call.disc = 1

(***************************************************************************)
(* What a guest reads back, following the record layout of the interface:  *)
(* string header {ptr, len}; node = id at 0, option parent-id at 8, title  *)
(* at 20, option url at 28, option children (a list of nodes) at 40.       *)
(***************************************************************************)
LoadU32(m, a) == FromLE32(LoadBytes(m, a, 4))

DecodeString(m, at) == Utf8Decode(LoadBytes(m, LoadU32(m, at), LoadU32(m, at + 4)))

RECURSIVE DecodeNode(_, _)
DecodeNode(m, at) ==
  Node(DecodeString(m, at),
       IF LoadU32(m, at + 8) = 1 THEN DecodeString(m, at + 12) ELSE UndefStr,
       DecodeString(m, at + 20),
       IF LoadU32(m, at + 28) = 1 THEN DecodeString(m, at + 32) ELSE UndefStr,
       LoadU32(m, at + 40) = 1,
       IF LoadU32(m, at + 40) = 1
       THEN [ i \in 1..LoadU32(m, at + 48) |->
                DecodeNode(m, LoadU32(m, at + 44) + (i - 1) * NodeSize) ]
       ELSE <<>>)

RECURSIVE LowerNode(_)
\* the interface value of a chrome.bookmarks node: a missing or empty
\* parentId or url is absent, a missing title is "", children are present
\* when the node has a non-empty children array
LowerNode(node) ==
  Node(node.id,
       IF Truthy(node.parentId) THEN node.parentId ELSE UndefStr,
       OrEmpty(node.title),
       IF Truthy(node.url) THEN node.url ELSE UndefStr,
       node.kids /\ Len(node.children) > 0,
       IF node.kids /\ Len(node.children) > 0
       THEN [ i \in 1..Len(node.children) |-> LowerNode(node.children[i]) ]
       ELSE <<>>)

\* C15: the list a get-tree call has returned, read back from the memory of
\* the guest that is still running, is the whole tree one refresh put into
\* the cache, which is the tree the cache still holds: no refresh completes
\* between the start of the encoding and the end of the guest's run.
GetTreeReturnsOneSnapshot ==
  (call.op = "get-tree" /\ running # 0 /\ running = call.by /\ call.disc = 0) =>
    /\ bookmarkCache.set
    /\ bookmarkCache.tree \in Trees
    /\ [ i \in 1..LoadU32(rt, call.ret + 8) |->
          DecodeNode(rt, LoadU32(rt, call.ret + 4) + (i - 1) * NodeSize) ]
       = [ i \in 1..Len(bookmarkCache.tree) |-> LowerNode(bookmarkCache.tree[i]) ]

\* get-tree has returned the cached tree of four nodes, three levels deep, to
\* a guest whose heap was dirty
TreeReturnedAfterTwoRefreshes ==
  /\ running # 0
  /\ call.op = "get-tree"
  /\ call.disc = 0
  /\ bookmarkCache.tree = SampleTree
  /\ Len(DecodeNode(rt, LoadU32(rt, call.ret + 4)).children[1].children) = 2
  /\ inv[running].guest.dirty = DirtyByte

\* C16: each invocation has its own instance, memory and log buffer, however
\* the handlers interleave: the buffer of an invocation holds exactly what
\* its own guest logged and only a call of its own guest changes it, the logs
\* of its response are that buffer, its instance is no other invocation's,
\* and the memory its guest starts with is that of a fresh instance, with
\* nothing in it that the host wrote for another invocation.
InvocationsAreIsolated ==
  /\ [](\A i \in DOMAIN inv :
          /\ inv[i].logs = inv[i].sent
          /\ \A k \in DOMAIN inv[i].resps :
               inv[i].resps[k].hasLogs => inv[i].resps[k].logs = inv[i].sent
          /\ \A j \in DOMAIN inv :
               (j # i /\ inv[i].inst > 0) => inv[j].inst # inv[i].inst)
  /\ [][\A i \in DOMAIN inv :
          /\ inv'[i].logs # inv[i].logs => (running = i /\ call'.by = i)
          /\ (running # i /\ running' = i) =>
               (rt' = NewRuntime(inv'[i].guest) /\ inv'[i].logs = <<>>)]_vars

\* two handlers interleaved: the message that arrived first was instantiated
\* second, both guests logged, each a different text, and both completed
InterleavedGuestsLogged ==
  /\ inv[1].inst = 2
  /\ inv[2].inst = 1
  /\ inv[1].phase = "Completed"
  /\ inv[2].phase = "Completed"
  /\ inv[1].resps[1].logs = << SuccessText >>
  /\ inv[2].resps[1].logs = << DbNameText >>

\* the list of strings whose {ptr, len} header is at `at`: len string headers
\* of 8 bytes each
DecodeStringList(m, at) ==
  [ j \in 1..LoadU32(m, at + 4) |->
      DecodeString(m, LoadU32(m, at) + (j - 1) * HeaderSize) ]

\* C17 (as stated): once the table holds the rows that successful execute
\* calls inserted, a query selecting from it, in the same or a later
\* invocation, returns discriminant 0 and a rows list of that many rows, and
\* row i, read by the interface's layout (a list header of 8 bytes at
\* rowsPtr + 8 * i), holds the inserted values.
QueryReturnsInsertedRows ==
  (call.op = "query" /\ call.sql = SqlSelectText /\ running = call.by /\ running # 0
     /\ TableNameText \in DOMAIN databases[DbNameText].tabs
     /\ databases[DbNameText].tabs[TableNameText] # <<>>) =>
    /\ call.disc = 0
    /\ LoadU32(rt, call.ret + 16) = Len(databases[DbNameText].tabs[TableNameText])
    /\ \A i \in 1..Len(databases[DbNameText].tabs[TableNameText]) :
         /\ LoadU32(rt, LoadU32(rt, call.ret + 12) + (i - 1) * RowSize + 4) = 2
         /\ DecodeStringList(rt, LoadU32(rt, call.ret + 12) + (i - 1) * RowSize)
            = << DecimalString(1), HelloText >>

\* C17 (as the code has it): the same, with row i found through the pointer
\* the code stores at rowsPtr + 4 * i.
QueryReturnsInsertedRowsByPointer ==
  (call.op = "query" /\ call.sql = SqlSelectText /\ running = call.by /\ running # 0
     /\ TableNameText \in DOMAIN databases[DbNameText].tabs
     /\ databases[DbNameText].tabs[TableNameText] # <<>>) =>
    /\ call.disc = 0
    /\ LoadU32(rt, call.ret + 16) = Len(databases[DbNameText].tabs[TableNameText])
    /\ \A i \in 1..Len(databases[DbNameText].tabs[TableNameText]) :
         /\ LoadU32(rt, LoadU32(rt, LoadU32(rt, call.ret + 12) + (i - 1) * 4) + 4) = 2
         /\ DecodeStringList(rt, LoadU32(rt, LoadU32(rt, call.ret + 12) + (i - 1) * 4))
            = << DecimalString(1), HelloText >>

\* one invocation created the table, inserted a row and returned; a later
\* invocation's query has returned one row
LaterInvocationSeesRow ==
  /\ inv[1].phase = "Completed"
  /\ running = 2
  /\ call.op = "query"
  /\ call.sql = SqlSelectText
  /\ call.disc = 0
  /\ LoadU32(rt, call.ret + 16) = 1
  /\ fuel = SqlCalls - 3

\* C18: once a module has been instantiated, exactly one entry point has been
\* invoked, once: run if the module exports run (also when it exports main),
\* main if it exports main and not run; if it exports neither, no guest
\* function has been invoked and the invocation has failed with the error
\* "No run or main export found".
EntryPointByPreference ==
  \A i \in DOMAIN inv :
    (inv[i].phase \notin { "Idle", "Instantiating" } /\ inv[i].guest.data
       /\ inv[i].guest.link) =>
      IF inv[i].guest.run THEN inv[i].entry = "run" /\ inv[i].entered = 1
      ELSE IF inv[i].guest.main THEN inv[i].entry = "main" /\ inv[i].entered = 1
      ELSE /\ inv[i].entry = "none"
           /\ inv[i].entered = 0
           /\ inv[i].phase = "Failed"
           /\ Len(inv[i].resps) = 1
           /\ ~inv[i].resps[1].success
           /\ inv[i].resps[1].error = MsgNoEntry

\* a module exporting both run and main has completed, and a module
\* exporting neither has failed
RunPreferredAndNoneFailed ==
  \E i, j \in DOMAIN inv :
    /\ inv[i].guest.run
    /\ inv[i].guest.main
    /\ inv[i].phase = "Completed"
    /\ inv[i].entry = "run"
    /\ ~inv[j].guest.run
    /\ ~inv[j].guest.main
    /\ inv[j].guest.link
    /\ inv[j].phase = "Failed"

\* C19: for a binary M that begins with the magic prefix, the bytes the
\* handler hands to instantiate are M, whether the data was Base64(M) or
\* Base64(Base64(M)); and the handler takes the result of a second decoding
\* only when the first did not yield bytes that begin with the magic prefix.
InstantiatedBytesAreModule ==
  \A i \in DOMAIN inv :
    /\ (inv[i].phase # "Idle" /\ inv[i].data \in { Btoa(inv[i].module),
                                                    Btoa(Btoa(inv[i].module)) }) =>
         /\ SubSeq(inv[i].module, 1, 4) = SubSeq(WasmPreamble, 1, 4)
         /\ inv[i].phase # "Failed" \/ inv[i].insts = 1 \/ ~inv[i].guest.link
         /\ inv[i].bytes = inv[i].module
    /\ (inv[i].data # UndefStr /\ Atob(inv[i].data).err = NoThrow
          /\ inv[i].bytes # Atob(inv[i].data).val) =>
         SubSeq(Atob(inv[i].data).val, 1, 4) # SubSeq(WasmPreamble, 1, 4)

\* a module that was encoded twice, with a section that ends in the bytes
\* FF FE FD, has been run to completion
TwiceEncodedModuleRan ==
  \E i \in DOMAIN inv :
    /\ inv[i].phase = "Completed"
    /\ inv[i].data = Btoa(Btoa(inv[i].module))
    /\ Len(inv[i].module) > 3
    /\ SubSeq(inv[i].module, Len(inv[i].module) - 2, Len(inv[i].module))
       = << 255, 254, 253 >>

\* C20 (as stated): for every string S, readString of the {ptr, len} that
\* writeString(S) returned gives S; len is the number of bytes of S in UTF-8,
\* and the call allocated len bytes and stored len bytes at ptr and nothing
\* more, so no terminator.
WriteThenReadGivesString ==
  (call.op = "echo" /\ ~call.threw) =>
    /\ inv[call.by].logs[Len(inv[call.by].logs)] = inv[call.by].sent[Len(inv[call.by].sent)]
    /\ call.ret.len = Len(Utf8Encode(inv[call.by].sent[Len(inv[call.by].sent)]))
    /\ Len(call.ev) = 2
    /\ call.ev[1].k = "alloc" /\ call.ev[1].at = call.ret.ptr /\ call.ev[1].n = call.ret.len
    /\ call.ev[2].k = "write" /\ call.ev[2].at = call.ret.ptr /\ call.ev[2].n = call.ret.len

\* C20 (as the code has it): the same for every string that has no unpaired
\* surrogate and does not begin with U+FEFF; an unpaired surrogate comes back
\* as U+FFFD and a leading U+FEFF is dropped.
WriteThenReadGivesWellFormedString ==
  (call.op = "echo" /\ ~call.threw) =>
    /\ \E S \in { inv[call.by].sent[Len(inv[call.by].sent)] } :
         \E T \in { inv[call.by].logs[Len(inv[call.by].logs)] } :
           IF S # <<>> /\ S[1] = 65279 THEN T = Tail(S)
           ELSE /\ Len(T) = Len(S)
                /\ \A k \in DOMAIN S :
                     T[k] = IF /\ IsSurrogate(S[k])
                               /\ ~(S[k] < 56320 /\ k < Len(S) /\ S[k + 1] >= 56320
                                      /\ S[k + 1] <= 57343)
                               /\ ~(S[k] >= 56320 /\ k > 1 /\ S[k - 1] >= 55296
                                      /\ S[k - 1] < 56320)
                            THEN 65533 ELSE S[k]
    /\ call.ret.len = Len(Utf8Encode(inv[call.by].sent[Len(inv[call.by].sent)]))
    /\ Len(call.ev) = 2
    /\ call.ev[1].k = "alloc" /\ call.ev[1].at = call.ret.ptr /\ call.ev[1].n = call.ret.len
    /\ call.ev[2].k = "write" /\ call.ev[2].at = call.ret.ptr /\ call.ev[2].n = call.ret.len

\* a guest has been given the empty string and then a surrogate pair, which
\* came back as it was from 4 bytes
PairEchoedAfterEmpty ==
  /\ call.op = "echo"
  /\ ~call.threw
  /\ running # 0
  /\ inv[running].sent = << <<>>, << 55357, 56832 >> >>
  /\ inv[running].logs = inv[running].sent
  /\ call.ret.len = 4

\* C21 (as stated): the block encodeStringList wrote for a list of N strings,
\* read back as N headers of 8 bytes at listPtr + 8 * i, each with
\* readString, is the same list in the same order, duplicates and empty
\* strings included, and the returned len is N.
ListReadBackIsList ==
  (call.op = "list" /\ ~call.threw /\ running = call.by) =>
    /\ call.ret.len = Len(call.list)
    /\ [ j \in 1..call.ret.len |->
           ReadString(rt, LoadU32(rt, call.ret.ptr + (j - 1) * 8),
                      LoadU32(rt, call.ret.ptr + (j - 1) * 8 + 4)).ret ]
       = call.list

\* C21 (as the code has it): the same, each element being what readString
\* gives for the bytes writeString stored for it, which is the element itself
\* unless it begins with U+FEFF or holds an unpaired surrogate.
ListReadBackIsListOfReadStrings ==
  (call.op = "list" /\ ~call.threw /\ running = call.by) =>
    /\ call.ret.len = Len(call.list)
    /\ \A j \in 1..Len(call.list) :
         \E T \in { Utf8Decode(Utf8Encode(call.list[j])) } :
           ReadString(rt, LoadU32(rt, call.ret.ptr + (j - 1) * 8),
                      LoadU32(rt, call.ret.ptr + (j - 1) * 8 + 4)).ret
           = IF T # <<>> /\ T[1] = 65279 THEN Tail(T) ELSE T
    /\ \A j \in 1..Len(call.list) :
         (call.list[j] = <<>> \/ (call.list[j][1] # 65279
                                    /\ \A k \in DOMAIN call.list[j] :
                                         ~IsSurrogate(call.list[j][k])))
         => ReadString(rt, LoadU32(rt, call.ret.ptr + (j - 1) * 8),
                       LoadU32(rt, call.ret.ptr + (j - 1) * 8 + 4)).ret = call.list[j]

\* the last host call the guest could make gave it a list of three strings
\* that holds one string twice, around another
ListsWithEmptyAndDuplicatesEncoded ==
  /\ call.op = "list"
  /\ ~call.threw
  /\ running = call.by
  /\ call.list = << << 104 >>, SuccessText, << 104 >> >>
  /\ call.ret.len = 3
  /\ fuel = 0

RECURSIVE AbsentFieldsEncodedAbsent(_, _, _)
\* for the node encoded at `at` and every node below it: a field the input
\* lacks has discriminant 0 at its offset and reads back as absent
AbsentFieldsEncodedAbsent(m, node, at) ==
  /\ node.parentId = UndefStr =>
       LoadU32(m, at + 8) = 0 /\ DecodeNode(m, at).parentId = UndefStr
  /\ node.url = UndefStr =>
       LoadU32(m, at + 28) = 0 /\ DecodeNode(m, at).url = UndefStr
  /\ (~node.kids \/ node.children = <<>>) =>
       LoadU32(m, at + 40) = 0 /\ ~DecodeNode(m, at).kids
  /\ (node.kids /\ node.children # <<>>) =>
       /\ LoadU32(m, at + 40) = 1
       /\ LoadU32(m, at + 48) = Len(node.children)
       /\ \A i \in 1..Len(node.children) :
            AbsentFieldsEncodedAbsent(m, node.children[i],
                                      LoadU32(m, at + 44) + (i - 1) * NodeSize)

\* C22: in the tree a get-tree call has returned, every node's optional
\* field that the input lacks (parent-id, url, children) has discriminant 0
\* at its offset (8, 28, 40) and decodes as absent; a node without children
\* has discriminant 0 at offset 40, not a list header.
AbsentOptionsEncodeAbsent ==
  (call.op = "get-tree" /\ running # 0 /\ running = call.by /\ call.disc = 0) =>
    /\ LoadU32(rt, call.ret + 8) = Len(bookmarkCache.tree)
    /\ \A i \in 1..Len(bookmarkCache.tree) :
         AbsentFieldsEncodedAbsent(rt, bookmarkCache.tree[i],
                                   LoadU32(rt, call.ret + 4) + (i - 1) * NodeSize)

\* get-tree has returned, to a guest whose heap was dirty, the tree whose
\* root has no parent-id and no url and whose folder holds a bookmark without
\* a children field
RootWithoutParentEncoded ==
  /\ running # 0
  /\ running = call.by
  /\ call.op = "get-tree"
  /\ call.disc = 0
  /\ rt.dirty = DirtyByte
  /\ bookmarkCache.tree = SampleTree
  /\ LoadU32(rt, LoadU32(rt, call.ret + 4) + 8) = 0
  /\ LoadU32(rt, LoadU32(rt, call.ret + 4) + 28) = 0
  /\ LoadU32(rt, LoadU32(rt, call.ret + 4) + 40) = 1

RECURSIVE Shape(_)
\* the shape of a node: whether it has a children list, and the shapes of
\* the nodes in it
Shape(node) ==
  [ kids |-> node.kids,
    children |-> [ i \in 1..Len(node.children) |-> Shape(node.children[i]) ] ]

\* C23 (as stated): the tree a get-tree call has returned, decoded by the
\* record layout, has the shape of the cached tree: the same nodes at the
\* same depths, a node with an empty children list decoding as a node that
\* has a children list of length 0 and not as a node without the field.
DecodedTreeKeepsShape ==
  (call.op = "get-tree" /\ running # 0 /\ running = call.by /\ call.disc = 0) =>
    [ i \in 1..LoadU32(rt, call.ret + 8) |->
        Shape(DecodeNode(rt, LoadU32(rt, call.ret + 4) + (i - 1) * NodeSize)) ]
    = [ i \in 1..Len(bookmarkCache.tree) |-> Shape(bookmarkCache.tree[i]) ]

\* C23 (amended): the decoded tree has the same nodes at the same depths as
\* the cached tree, and a node decodes as having a children list exactly when
\* its children list is not empty: a node with an empty children list decodes
\* as a node without the field.
DecodedTreeKeepsNonEmptyShape ==
  (call.op = "get-tree" /\ running # 0 /\ running = call.by /\ call.disc = 0) =>
    [ i \in 1..LoadU32(rt, call.ret + 8) |->
        Shape(DecodeNode(rt, LoadU32(rt, call.ret + 4) + (i - 1) * NodeSize)) ]
    = [ i \in 1..Len(bookmarkCache.tree) |-> Shape(LowerNode(bookmarkCache.tree[i])) ]

\* get-tree has returned the tree of three levels whose folder holds a
\* bookmark and an empty folder: the folder decodes with two children, and
\* both of them decode without a children list
ThreeLevelsDecoded ==
  /\ running # 0
  /\ running = call.by
  /\ call.op = "get-tree"
  /\ call.disc = 0
  /\ bookmarkCache.tree = SampleTree
  /\ \E root \in { DecodeNode(rt, LoadU32(rt, call.ret + 4)) } :
       /\ Len(root.children) = 1
       /\ Len(root.children[1].children) = 2
       /\ ~root.children[1].children[1].kids
       /\ ~root.children[1].children[2].kids

RECURSIVE ListInPlace(_, _, _, _)
\* the list `nodes` is encoded at listPtr: one allocation of 52 bytes per
\* node was made there, node i was encoded at listPtr + 52 * i with its
\* fields at the offsets of the record, and so for each children list
ListInPlace(m, ev, nodes, listPtr) ==
  /\ Cardinality({ j \in DOMAIN ev : /\ ev[j].k = "alloc"
                                      /\ ev[j].at = listPtr
                                      /\ ev[j].n = Len(nodes) * 52 }) = 1
  /\ \A i \in 1..Len(nodes) :
       /\ \E j \in DOMAIN ev : ev[j].k = "node" /\ ev[j].at = listPtr + 52 * (i - 1)
       /\ DecodeString(m, listPtr + 52 * (i - 1) + 0) = nodes[i].id
       /\ LoadU32(m, listPtr + 52 * (i - 1) + 8) = IF Truthy(nodes[i].parentId) THEN 1 ELSE 0
       /\ Truthy(nodes[i].parentId) =>
            DecodeString(m, listPtr + 52 * (i - 1) + 12) = nodes[i].parentId
       /\ DecodeString(m, listPtr + 52 * (i - 1) + 20) = OrEmpty(nodes[i].title)
       /\ LoadU32(m, listPtr + 52 * (i - 1) + 28) = IF Truthy(nodes[i].url) THEN 1 ELSE 0
       /\ Truthy(nodes[i].url) =>
            DecodeString(m, listPtr + 52 * (i - 1) + 32) = nodes[i].url
       /\ LoadU32(m, listPtr + 52 * (i - 1) + 40)
            = IF nodes[i].kids /\ nodes[i].children # <<>> THEN 1 ELSE 0
       /\ (nodes[i].kids /\ nodes[i].children # <<>>) =>
            /\ LoadU32(m, listPtr + 52 * (i - 1) + 48) = Len(nodes[i].children)
            /\ ListInPlace(m, ev, nodes[i].children, LoadU32(m, listPtr + 52 * (i - 1) + 44))

RECURSIVE AllocationsOf(_, _)
\* the allocations the encoding of nodes[i..] and of what is below them
\* takes when no node record is allocated: one per string written and one
\* per children list
AllocationsOf(nodes, i) ==
  IF i > Len(nodes) THEN 0
  ELSE 2 + (IF Truthy(nodes[i].parentId) THEN 1 ELSE 0)
         + (IF Truthy(nodes[i].url) THEN 1 ELSE 0)
         + (IF nodes[i].kids /\ nodes[i].children # <<>>
            THEN 1 + AllocationsOf(nodes[i].children, 1) ELSE 0)
         + AllocationsOf(nodes, i + 1)

\* C24: a get-tree call that returned a list of n nodes made one allocation
\* of n * 52 bytes for the array and encoded node i in place at
\* listPtr + 52 * i (id at 0, parent-id at 8, title at 20, url at 28,
\* children at 40), each children list by the same rule; the allocations of
\* the call are those of the strings, of the lists and of the result, none
\* for a node record.
NodesEncodedInPlace ==
  (call.op = "get-tree" /\ running # 0 /\ running = call.by /\ call.disc = 0) =>
    /\ LoadU32(rt, call.ret + 8) = Len(bookmarkCache.tree)
    /\ ListInPlace(rt, call.ev, bookmarkCache.tree, LoadU32(rt, call.ret + 4))
    /\ Cardinality({ j \in DOMAIN call.ev : call.ev[j].k = "alloc" })
       = 1 + AllocationsOf(bookmarkCache.tree, 1) + 1

\* get-tree has returned the tree of four nodes in three lists: its call made
\* 16 allocations (12 strings, 3 lists, the result and none for a node), the
\* list of two nodes in one allocation of 104 bytes
TwoNodesInOneAllocation ==
  /\ running # 0
  /\ running = call.by
  /\ call.op = "get-tree"
  /\ call.disc = 0
  /\ bookmarkCache.tree = SampleTree
  /\ Cardinality({ j \in DOMAIN call.ev : call.ev[j].k = "alloc" }) = 16
  /\ \E j \in DOMAIN call.ev : call.ev[j].k = "alloc" /\ call.ev[j].n = 104

\* C25 (as stated): in the Ok result of a query, the columns header at offset
\* 4 announces a contiguous array of 8-byte string headers, and the rows
\* header at offset 12 announces a contiguous array of one 8-byte
\* {pointer, length} header per row at rowsPtr + 8 * i, each referring to the
\* string headers of that row.
RowsArrayHoldsHeaders ==
  (call.op = "query" /\ call.sql = SqlSelectText /\ running = call.by /\ running # 0
     /\ call.disc = 0) =>
    /\ LoadU32(rt, call.ret + 8)
       = IF databases[DbNameText].tabs[TableNameText] = <<>> THEN 0 ELSE 2
    /\ DecodeStringList(rt, call.ret + 4)
       = IF databases[DbNameText].tabs[TableNameText] = <<>> THEN <<>>
         ELSE << ColIdText, ColValText >>
    /\ LoadU32(rt, call.ret + 16) = Len(databases[DbNameText].tabs[TableNameText])
    /\ \E j \in DOMAIN call.ev :
         /\ call.ev[j].k = "alloc"
         /\ call.ev[j].at = LoadU32(rt, call.ret + 12)
         /\ call.ev[j].n = 8 * LoadU32(rt, call.ret + 16)
    /\ \A i \in 1..LoadU32(rt, call.ret + 16) :
         /\ \E j \in DOMAIN call.ev :
              /\ call.ev[j].k = "alloc"
              /\ call.ev[j].at = LoadU32(rt, LoadU32(rt, call.ret + 12) + 8 * (i - 1))
              /\ call.ev[j].n = 8 * LoadU32(rt, LoadU32(rt, call.ret + 12) + 8 * (i - 1) + 4)
         /\ LoadU32(rt, LoadU32(rt, call.ret + 12) + 8 * (i - 1) + 4)
            = Len(databases[DbNameText].tabs[TableNameText][i])

\* C25 (as the code has it): the columns are as stated; the rows header
\* announces an array of one 4-byte pointer per row at rowsPtr + 4 * i, each
\* the address of an 8-byte {pointer, length} header, allocated on its own,
\* that refers to the string headers of that row.
RowsArrayHoldsPointers ==
  (call.op = "query" /\ call.sql = SqlSelectText /\ running = call.by /\ running # 0
     /\ call.disc = 0) =>
    /\ LoadU32(rt, call.ret + 8)
       = IF databases[DbNameText].tabs[TableNameText] = <<>> THEN 0 ELSE 2
    /\ DecodeStringList(rt, call.ret + 4)
       = IF databases[DbNameText].tabs[TableNameText] = <<>> THEN <<>>
         ELSE << ColIdText, ColValText >>
    /\ LoadU32(rt, call.ret + 16) = Len(databases[DbNameText].tabs[TableNameText])
    /\ \E j \in DOMAIN call.ev :
         /\ call.ev[j].k = "alloc"
         /\ call.ev[j].at = LoadU32(rt, call.ret + 12)
         /\ call.ev[j].n = 4 * LoadU32(rt, call.ret + 16)
    /\ \A i \in 1..LoadU32(rt, call.ret + 16) :
         \E hdr \in { LoadU32(rt, LoadU32(rt, call.ret + 12) + 4 * (i - 1)) } :
           /\ \E j \in DOMAIN call.ev :
                call.ev[j].k = "alloc" /\ call.ev[j].at = hdr /\ call.ev[j].n = 8
           /\ \E j \in DOMAIN call.ev :
                /\ call.ev[j].k = "alloc"
                /\ call.ev[j].at = LoadU32(rt, hdr)
                /\ call.ev[j].n = 8 * LoadU32(rt, hdr + 4)
           /\ LoadU32(rt, hdr + 4) = Len(databases[DbNameText].tabs[TableNameText][i])

\* a query has returned two rows of two columns: the rows array is one
\* allocation of 8 bytes
TwoRowsReturned ==
  /\ call.op = "query"
  /\ running = call.by
  /\ running # 0
  /\ call.disc = 0
  /\ LoadU32(rt, call.ret + 8) = 2
  /\ LoadU32(rt, call.ret + 16) = 2
  /\ \E j \in DOMAIN call.ev :
       /\ call.ev[j].k = "alloc"
       /\ call.ev[j].at = LoadU32(rt, call.ret + 12)
       /\ call.ev[j].n = 8

\* C26: a proc_exit call returns to the guest with the invocation still
\* running and no response sent; an env.log call the guest makes after it is
\* served like any other; and when the entry point of a guest that called
\* proc_exit returns r, the response is success with result r, whatever the
\* exit code was.
ExitReturnsToGuest ==
  \A i \in DOMAIN inv :
    inv[i].exited # -1 =>
      /\ (call.op = "proc_exit" /\ call.by = i) =>
           /\ ~call.threw
           /\ call.ret = 0
           /\ running = i
           /\ inv[i].phase = "Running"
           /\ inv[i].resps = <<>>
      /\ (call.op = "log" /\ call.by = i /\ ~call.oob) =>
           /\ running = i
           /\ inv[i].phase = "Running"
           /\ inv[i].logs = inv[i].sent
           /\ inv[i].logs # <<>>
      /\ inv[i].phase = "Completed" =>
           /\ inv[i].returned \in ReturnCodes
           /\ inv[i].resps = << Success(inv[i].returned, inv[i].sent) >>

\* a guest called proc_exit(3) and then env.log, its last host call, which
\* put its string into the logs; the guest is still running
LoggedAfterExit ==
  \E i \in DOMAIN inv :
    /\ inv[i].exited = 3
    /\ call.op = "log"
    /\ call.by = i
    /\ running = i
    /\ inv[i].logs = << SuccessText >>
    /\ fuel = 0

(***************************************************************************)
(* Properties of the collection messages.                                  *)
(***************************************************************************)
\* handler i sends { success: true } in this step
RespondsOk(i) ==
  /\ i \in DOMAIN sw'.handlers
  /\ sw'.handlers[i].pc = "done"
  /\ sw'.handlers[i].resp = "ok"
  /\ i \in DOMAIN sw.handlers => sw.handlers[i].pc \notin { "done", "lost" }

\* the handlers the claim lists as changing a database's contents
ChangesContents(h) ==
  \/ h.action \in { "createCollection", "importFromBlob", "setSchema", "saveEntry",
                    "deleteEntry" }
  \/ h.action = "executeSQL" /\ h.wrote

\* C27 as stated: whenever a handler that changes a database's contents responds
\* with success, the checkpoint stored for that database equals the contents the
\* database has in memory at that moment.
CheckpointEqualsMemoryAtResponse ==
  [][ \A i \in 1..StoreMsgs :
        RespondsOk(i) /\ ChangesContents(sw'.handlers[i])
        => /\ sw'.handlers[i].name \in DOMAIN databases'
           /\ CheckpointKey(sw'.handlers[i].name) \in DOMAIN storage'
           /\ storage'[CheckpointKey(sw'.handlers[i].name)]
                = ExportDb(databases'[sw'.handlers[i].name]) ]_vars

\* C27, what the handlers do: whenever createCollection, importFromBlob,
\* setSchema, savePacket, deletePacket, saveSchema or deleteSchema responds with
\* success, the checkpoint stored for its database is the export its
\* saveCheckpoint took, and it equals the contents in memory if no other message
\* named that database; executeSQL responds without touching the storage.
CheckpointIsSnapshotAtResponse ==
  [][ \A i \in 1..StoreMsgs :
        RespondsOk(i) /\ ChangesContents(sw'.handlers[i])
        => IF sw'.handlers[i].action = "executeSQL"
           THEN storage' = storage /\ pending' = pending
           ELSE /\ CheckpointKey(sw'.handlers[i].name) \in DOMAIN storage'
                /\ storage'[CheckpointKey(sw'.handlers[i].name)] = sw'.handlers[i].snap
                /\ (\A j \in DOMAIN sw'.handlers :
                      j # i => sw'.handlers[j].name # sw'.handlers[i].name)
                   => storage'[CheckpointKey(sw'.handlers[i].name)]
                        = ExportDb(databases'[sw'.handlers[i].name]) ]_vars

\* savePacket has responded, then executeSQL has changed the packets database
\* and responded with success: the stored checkpoint is savePacket's export
\* and no longer the contents in memory
StatementChangedCheckpointedDatabase ==
  /\ Len(sw.handlers) >= 2
  /\ sw.handlers[1].action = "saveEntry" /\ sw.handlers[1].resp = "ok"
  /\ sw.handlers[1].name = PacketsName
  /\ sw.handlers[2].action = "executeSQL" /\ sw.handlers[2].resp = "ok"
  /\ sw.handlers[2].name = PacketsName /\ sw.handlers[2].wrote
  /\ sw.boots = 0
  /\ storage[CheckpointKey(PacketsName)] = sw.handlers[1].snap
  /\ storage[CheckpointKey(PacketsName)] # ExportDb(databases[PacketsName])
  /\ Len(databases[PacketsName].tabs[PacketsName]) = 1

RestoreResponds(i) ==
  /\ sw.handlers[i].pc = "get"
  /\ sw'.handlers[i].pc = "done"

\* C29: when restoreCheckpoint responds for a collection whose checkpoint was last
\* written by a handler's saveCheckpoint, it reports restored = true and the
\* collection's contents are the export that saveCheckpoint took, whatever was
\* done to the database since; the other collections, and the storage, are as
\* they were.
RestoreReturnsSavedContents ==
  [][ \A i \in DOMAIN sw.handlers :
        RestoreResponds(i)
        => /\ CheckpointKey(sw.handlers[i].name) \in DOMAIN sw.last
              => /\ sw'.handlers[i].restored
                 /\ sw.handlers[i].name \in DOMAIN databases'
                 /\ ExportDb(databases'[sw.handlers[i].name])
                      = sw.handlers[sw.last[CheckpointKey(sw.handlers[i].name)]].snap
           /\ \A n \in (DOMAIN databases) \ { sw.handlers[i].name } :
                n \in DOMAIN databases' /\ databases'[n] = databases[n]
           /\ (DOMAIN databases') \ { sw.handlers[i].name }
                = (DOMAIN databases) \ { sw.handlers[i].name }
           /\ storage' = storage ]_vars

\* saveCheckpoint responded for the guest's database holding one row, executeSQL
\* then inserted a second row, and restoreCheckpoint has put the one row back
InsertDiscardedByRestore ==
  /\ Len(sw.handlers) = 3
  /\ sw.boots = 0
  /\ sw.handlers[1].action = "saveCheckpoint" /\ sw.handlers[1].resp = "ok"
  /\ sw.handlers[2].action = "executeSQL" /\ sw.handlers[2].wrote
  /\ sw.handlers[3].action = "restoreCheckpoint" /\ sw.handlers[3].restored
  /\ \A i \in 1..3 : sw.handlers[i].name = DbNameText
  /\ sw.handlers[1].snap = (TableNameText :> << HelloRow >>)
  /\ databases[DbNameText].tabs = sw.handlers[1].snap

\* C30: when restoreCheckpoint responds for a collection that has no stored
\* checkpoint, it reports restored = false, and the open collections with their
\* contents and the storage are as they were.
RestoreWithoutCheckpointChangesNothing ==
  [][ \A i \in DOMAIN sw.handlers :
        RestoreResponds(i) /\ CheckpointKey(sw.handlers[i].name) \notin DOMAIN storage
        => /\ ~sw'.handlers[i].restored
           /\ sw'.handlers[i].resp = "ok"
           /\ databases' = databases
           /\ storage' = storage
           /\ pending' = pending ]_vars

\* restoreCheckpoint has answered restored = false for the guest's database; the
\* createCollection that arrived while it waited on storage.get has opened the
\* database and still awaits its write, executeSQL has given it a table, and no
\* checkpoint of it is stored
RestoreFoundNoCheckpoint ==
  /\ Len(sw.handlers) = 3
  /\ sw.boots = 0
  /\ sw.handlers[1].action = "restoreCheckpoint"
  /\ sw.handlers[1].pc = "done" /\ ~sw.handlers[1].restored
  /\ sw.handlers[2].action = "createCollection" /\ sw.handlers[2].pc = "set"
  /\ sw.handlers[3].action = "executeSQL" /\ sw.handlers[3].wrote
  /\ \A i \in 1..3 : sw.handlers[i].name = DbNameText
  /\ CheckpointKey(DbNameText) \notin DOMAIN storage
  /\ databases[DbNameText].tabs = (TableNameText :> <<>>)

\* no message that arrived after handler i created or imported i's collection anew
NotCreatedAgain(hs, i) ==
  \A j \in DOMAIN hs :
    j > i /\ hs[j].name = hs[i].name
    => hs[j].action \notin { "createCollection", "importFromBlob" }

\* no restoreCheckpoint of handler i's collection was awaiting storage.get when i arrived
NoRestoreInFlight(hs, i) ==
  \A j \in DOMAIN hs :
    j < i /\ hs[j].name = hs[i].name => hs[j].action # "restoreCheckpoint"

\* C31 as stated: when deleteCollection(name) responds with success, whatever
\* handlers were saving a checkpoint of name, the collection is not open and no
\* checkpoint of it is stored; and when the worker restarts after that response,
\* the collection is not open after initialization.
DeletedCollectionStaysDeleted ==
  [][ /\ \A i \in 1..StoreMsgs :
           /\ RespondsOk(i)
           /\ sw'.handlers[i].action = "deleteCollection"
           /\ NotCreatedAgain(sw'.handlers, i)
           /\ NoRestoreInFlight(sw'.handlers, i)
           => /\ sw'.handlers[i].name \notin DOMAIN databases'
              /\ CheckpointKey(sw'.handlers[i].name) \notin DOMAIN storage'
      /\ sw'.boots = sw.boots + 1
         => \A i \in DOMAIN sw.handlers :
              /\ sw.handlers[i].action = "deleteCollection"
              /\ sw.handlers[i].pc = "done"
              /\ NotCreatedAgain(sw.handlers, i)
              /\ NoRestoreInFlight(sw.handlers, i)
              => /\ sw.handlers[i].name \notin DOMAIN databases'
                 /\ CheckpointKey(sw.handlers[i].name) \notin DOMAIN storage' ]_vars

\* C31, what the handlers do: the response part holds for every collection; after
\* a restart a deleted collection of the user's is not open and has no
\* checkpoint, while a deleted system collection is open again (initialization
\* creates it anew and saves its checkpoint).
DeletedUserCollectionStaysDeleted ==
  [][ /\ \A i \in 1..StoreMsgs :
           /\ RespondsOk(i)
           /\ sw'.handlers[i].action = "deleteCollection"
           /\ NotCreatedAgain(sw'.handlers, i)
           /\ NoRestoreInFlight(sw'.handlers, i)
           => /\ sw'.handlers[i].name \notin DOMAIN databases'
              /\ CheckpointKey(sw'.handlers[i].name) \notin DOMAIN storage'
      /\ sw'.boots = sw.boots + 1
         => \A i \in DOMAIN sw.handlers :
              /\ sw.handlers[i].action = "deleteCollection"
              /\ sw.handlers[i].pc = "done"
              /\ NotCreatedAgain(sw.handlers, i)
              /\ NoRestoreInFlight(sw.handlers, i)
              => IF sw.handlers[i].name \in { PacketsName, SchemasName, WitsName }
                 THEN /\ sw.handlers[i].name \in DOMAIN databases'
                      /\ CheckpointKey(sw.handlers[i].name) \in DOMAIN storage'
                 ELSE /\ sw.handlers[i].name \notin DOMAIN databases'
                      /\ CheckpointKey(sw.handlers[i].name) \notin DOMAIN storage' ]_vars

\* the guest's database was imported with two rows and then deleted, both with
\* success; a third handler was still waiting when the worker stopped, and
\* after the restart the database is not open and has no checkpoint
DeletedCollectionGoneAfterRestart ==
  /\ sw.boots = 1
  /\ Len(sw.handlers) = 3
  /\ sw.handlers[1].action = "importFromBlob" /\ sw.handlers[1].resp = "ok"
  /\ sw.handlers[1].snap = (TableNameText :> << HelloRow, HelloRow >>)
  /\ sw.handlers[2].action = "deleteCollection" /\ sw.handlers[2].resp = "ok"
  /\ sw.handlers[1].name = DbNameText /\ sw.handlers[2].name = DbNameText
  /\ sw.handlers[3].pc = "lost" /\ sw.handlers[3].name = PacketsName
  /\ DbNameText \notin DOMAIN databases
  /\ CheckpointKey(DbNameText) \notin DOMAIN storage

(***************************************************************************)
(* Properties of the initialization.                                       *)
(***************************************************************************)
\* C32 as stated: no message's action runs against a SQLiteManager on which a
\* restore of the checkpoints is unfinished, and at most one SQLiteManager is
\* ever constructed.
ActionsRunOnRestoredManager ==
  /\ boot.made <= 1
  /\ \A c \in DOMAIN boot.calls : boot.calls[c].pc = "act" => ~boot.calls[c].early

\* C32, what the initializer of service-worker.js does: a message's action runs
\* only once initialized is set, against a manager that was constructed; one
\* manager is constructed for every call whose initSqlJs resolved; and if no
\* second call entered while the first was in progress and no await rejected,
\* the action runs on the one manager, with its restore finished.
ActionsRunAfterInitialized ==
  /\ boot.made <= Cardinality({ c \in DOMAIN boot.calls : boot.calls[c].mgr # 0 })
  /\ \A c \in DOMAIN boot.calls :
       boot.calls[c].pc = "act"
       => /\ boot.initialized
          /\ boot.calls[c].ran \in 1..boot.made
          /\ (~boot.rejected
               /\ Cardinality({ d \in DOMAIN boot.calls : boot.calls[d].mgr # 0 }) = 1)
             => ~boot.calls[c].early /\ boot.made = 1

\* two managers were constructed, and the action of the third message ran
\* against the second one while its restore was unfinished
ActionRanOnUnrestoredManager ==
  /\ boot.made = 2
  /\ ~boot.rejected
  /\ boot.calls[4].pc = "act"
  /\ boot.calls[4].ran = 2
  /\ boot.calls[4].early
  /\ 2 \notin boot.restored

\* C33: when the worker starts, the list restoreAllCheckpoints returns holds, once
\* each, exactly the collections whose stored checkpoint loads, whatever other
\* checkpoints fail to load; each of them is open afterwards, with the stored
\* contents (wits with its defaults added).
EveryLoadableCheckpointRestored ==
  [][ sw'.boots = sw.boots + 1
      => /\ \A i \in DOMAIN StoredNames :
              (/\ CheckpointKey(StoredNames[i]) \in DOMAIN storage
               /\ storage[CheckpointKey(StoredNames[i])] # CorruptBlob)
              <=> \E j \in DOMAIN sw'.names : sw'.names[j] = StoredNames[i]
         /\ \A j, k \in DOMAIN sw'.names : sw'.names[j] = sw'.names[k] => j = k
         /\ \A j \in DOMAIN sw'.names :
              /\ sw'.names[j] \in DOMAIN databases'
              /\ sw'.names[j] # WitsName
                 => ExportDb(databases'[sw'.names[j]])
                      = storage[CheckpointKey(sw'.names[j])] ]_vars

\* the worker has started over a checkpoint of the guest's database that does
\* not load, the first key of the storage: the three checkpoints after it were
\* restored and returned, the guest's database is not open
LaterCheckpointsRestored ==
  /\ sw.boots = 1
  /\ CheckpointKey(DbNameText) \in DOMAIN storage
  /\ storage[CheckpointKey(DbNameText)] = CorruptBlob
  /\ sw.names = << PacketsName, SchemasName, WitsName >>
  /\ DbNameText \notin DOMAIN databases

\* the calls that are inside the body of initializeSQLite
InBody(b) == { c \in DOMAIN b.calls : b.calls[c].pc \in { "load", "restore", "ensure" } }

\* C34: in the locked initializer at most one call is inside the body, and it is
\* the one whose promise initializing holds; the calls made meanwhile wait on
\* that promise; at most one SQLiteManager is ever constructed; no action runs
\* before a restore has finished on it; and initializing never holds the
\* promise of a body that failed, so that a later call starts a new body.
LockedInitializationRunsOnce ==
  /\ Cardinality(InBody(boot)) <= 1
  /\ boot.made <= 1
  /\ \A c \in DOMAIN boot.calls :
       /\ c \in InBody(boot) => boot.initializing = c
       /\ boot.calls[c].pc = "wait" => boot.initializing \in InBody(boot)
       /\ boot.calls[c].pc = "act"
          => boot.initialized /\ ~boot.calls[c].early /\ boot.calls[c].ran = 1
  /\ boot.initializing # 0 /\ ~boot.initialized => boot.initializing \in InBody(boot)

\* the first initialization failed, taking the call that waited on it along; the
\* third call started a new body, on which the fourth waited, and both
\* messages' actions have run; one manager was constructed
SecondAttemptSucceeded ==
  /\ boot.locked
  /\ boot.calls[1].pc = "fail"
  /\ boot.calls[2].pc = "fail"
  /\ boot.calls[3].pc = "act" /\ boot.calls[3].mgr = 1
  /\ boot.calls[4].pc = "act" /\ boot.calls[4].mgr = 0
  /\ boot.initializing = 3
  /\ boot.made = 1

\* C35: every message whose processing has ended has received exactly one
\* response, and no message ever receives two; an unknown action is answered
\* with success: false and 'Unknown action' unless initialization failed.
ExactlyOneResponse ==
  \A i \in DOMAIN msgs :
    /\ Len(msgs[i].resps) <= 1
    /\ msgs[i].pc = "done" => Len(msgs[i].resps) = 1
    /\ (msgs[i].pc = "done" /\ msgs[i].action = UnknownAction /\ msgs[i].via # "outer")
         => msgs[i].resps = << [ success |-> FALSE, error |-> "Unknown action" ] >>

\* C35 witness: a message was answered by the outer catch after a throw inside
\* a case that has no try of its own.
AnsweredByOuterCatch ==
  \E i \in DOMAIN msgs :
    /\ msgs[i].pc = "done" /\ msgs[i].via = "outer" /\ msgs[i].at > 0
    /\ ~Cases[msgs[i].action].try

\* C36: a populated bookmark cache is never unpopulated: a refresh that fails
\* leaves the cache as it was, and once a refresh has succeeded no get-tree
\* call returns the 'Cache not ready' error.
PopulatedCacheStaysPopulated ==
  /\ [][bookmarkCache.set => bookmarkCache'.set]_vars
  /\ [][sw'.sync.failed > sw.sync.failed => bookmarkCache' = bookmarkCache]_vars
  /\ []((call.op = "get-tree" /\ running = call.by /\ running # 0 /\ bookmarkCache.set) =>
          \/ call.threw
          \/ call.disc = 0)

\* C36 witness: the last refresh failed after an earlier one had filled the
\* cache, and a guest's get-tree has then returned Ok.
GetTreeOkAfterFailedRefresh ==
  /\ bookmarkCache.set
  /\ sw.sync.lastFailed
  /\ running # 0
  /\ call.op = "get-tree"
  /\ running = call.by
  /\ ~call.threw
  /\ call.disc = 0

\* C37 (as stated): a query call leaves the set of open database handles as
\* it was and issues no checkpoint write.
QueryLeavesHandlesAlone ==
  [][(call'.op = "query" /\ fuel' < fuel) =>
       /\ DOMAIN databases' = DOMAIN databases
       /\ pending' = pending
       /\ storage' = storage]_vars

\* C37 (as the code has it): a query call issues no checkpoint write and
\* closes no handle; it opens at most the database it names, and leaves the
\* contents of every other database as they were.
QueryOpensOnlyTheNamedDatabase ==
  [][(call'.op = "query" /\ fuel' < fuel) =>
       /\ pending' = pending
       /\ storage' = storage
       /\ DOMAIN databases \subseteq DOMAIN databases'
       /\ DOMAIN databases' \subseteq DOMAIN databases \cup { DbNameText }
       /\ \A n \in DOMAIN databases \ { DbNameText } : databases'[n] = databases[n]]_vars

\* C37 witness: the first capability call made was a query of a database that
\* was not open, and the database is open and empty now.
QueryOpenedEmptyDatabase ==
  /\ fuel = SqlCalls - 1
  /\ call.op = "query"
  /\ ~call.threw
  /\ DbNameText \in DOMAIN databases
  /\ databases[DbNameText] = EmptyDb
  /\ pending = <<>>

\* the group of the handler has been removed from the browser
Removed(g) ==
  \E j \in DOMAIN groups.procs :
    groups.procs[j].kind = "removed" /\ groups.procs[j].group = g

\* C38 (as stated): an entry leaves the stored activeGroups map only when its
\* own group has been removed, whatever the interleaving of the handlers.
EntriesStayUntilGroupRemoved ==
  [][\A g \in DOMAIN groups.stored : g \in DOMAIN groups'.stored \/ Removed(g)]_vars

\* C38 (as the code has it): a set stores the map its handler read with the
\* handler's own entry added or deleted, so an entry leaves the stored map only
\* by the set of the listener of its group or by the set of a handler that
\* read the map before the entry was stored.
EntriesLostOnlyToStaleWrites ==
  [][\A g \in DOMAIN groups.stored :
       g \in DOMAIN groups'.stored
       \/ /\ groups.queue # <<>>
          /\ Head(groups.queue).op = "set"
          /\ \E h \in { groups.procs[Head(groups.queue).proc] } :
               /\ groups'.stored = WriteBack(h.kind, h.read, h.group, h.packet)
               /\ \/ h.kind = "removed" /\ h.group = g
                  \/ g \notin DOMAIN h.read]_vars

\* C38 witness: a handler has finished recording its group, the group has not
\* been removed, and the stored map has no entry of it.
RecordedEntryLost ==
  \E i \in DOMAIN groups.procs :
    /\ groups.procs[i].kind # "removed"
    /\ groups.procs[i].pc = "done"
    /\ ~Removed(groups.procs[i].group)
    /\ groups.procs[i].group \notin DOMAIN groups.stored
    /\ groups.queue = <<>>

SystemCollections == { PacketsName, SchemasName, WitsName }

\* C39 (as stated): once initialization has completed, the three system
\* collections are open in every state, whatever messages are handled.
SystemCollectionsAlwaysOpen ==
  \A n \in SystemCollections : n \in DOMAIN databases

\* C39 (as the code has it): an open system collection is closed only by the
\* deleteCollection message that names it, and every initialization leaves all
\* three open.
SystemCollectionsClosedOnlyByDelete ==
  /\ [][\A n \in SystemCollections :
          (n \in DOMAIN databases /\ n \notin DOMAIN databases') =>
            /\ Len(sw'.handlers) = Len(sw.handlers) + 1
            /\ sw'.handlers[Len(sw'.handlers)].action = "deleteCollection"
            /\ sw'.handlers[Len(sw'.handlers)].name = n]_vars
  /\ [][sw'.boots > sw.boots => \A n \in SystemCollections : n \in DOMAIN databases']_vars

\* C39 witness: deleteCollection naming 'packets' has answered, and the
\* collection is closed while the worker runs on.
PacketsCollectionClosed ==
  /\ PacketsName \notin DOMAIN databases
  /\ \E i \in DOMAIN sw.handlers :
       /\ sw.handlers[i].action = "deleteCollection"
       /\ sw.handlers[i].name = PacketsName
       /\ sw.handlers[i].pc = "done"
       /\ sw.handlers[i].resp = "ok"

====
